---- MODULE Spec2Model ----
(***************************************************************************)
(* docx-parser (src/src/lib.rs): the normalized document model and its     *)
(* Markdown rendering.  Strings of the program are TLA+ strings; Option<T> *)
(* is a sequence of length 0 (None) or 1 (Some).  HashMaps are functions   *)
(* whose DOMAIN is the key set.                                            *)
(***************************************************************************)
EXTENDS Integers, Sequences, FiniteSets, TLC

VARIABLES doc, pc, export_images, index, cell_k, cells_md, markdown,
          numberings, trace, tables, returned, calls, files,
          raw, n_pc, n_item, n_part, markdown_paragraph, origin,
          docx, r_pc, r_index, kept

\* the state of the rendering calls
renderVars == <<doc, pc, export_images, index, cell_k, cells_md, markdown,
                numberings, trace, tables, returned, calls, files>>

\* the state of a paragraph's normalization
normVars == <<raw, n_pc, n_item, n_part, markdown_paragraph, origin>>

\* the state of a document's reading
readVars == <<docx, r_pc, r_index, kept>>

vars == <<renderVars, normVars, readVars>>

\* ------------------------------------------------------------------------
\* Option<T>
None == <<>>

Some(v) == <<v>>

IsSome(o) == o # <<>>

Unwrap(o) == o[1]

\* Option::or (lib.rs:111-112) and Option::or_else (lib.rs:110)
OptionOr(a, b) == IF IsSome(a) THEN a ELSE b

\* ------------------------------------------------------------------------
\* Strings
RECURSIVE Repeat(_, _)
\* str::repeat
Repeat(s, n) == IF n <= 0 THEN "" ELSE s \o Repeat(s, n - 1)

RECURSIVE Concat(_)
\* the concatenation of a sequence of strings, in order
Concat(ss) == IF ss = <<>> THEN "" ELSE Head(ss) \o Concat(Tail(ss))

RECURSIVE Flatten(_)
\* the concatenation of a sequence of sequences, in order
Flatten(ss) == IF ss = <<>> THEN <<>> ELSE Head(ss) \o Flatten(Tail(ss))

Digits == <<"0", "1", "2", "3", "4", "5", "6", "7", "8", "9">>

RECURSIVE Decimal(_)
\* Display of an unsigned integer, as format!("{}", n) writes it
Decimal(n) == IF n < 10 THEN Digits[n + 1] ELSE Decimal(n \div 10) \o Digits[(n % 10) + 1]

\* The 256 values of `u8 as char` (U+0000..U+00FF), one character each.  A TLA+
\* string cannot hold the control characters (other than \t \n \f \r), the
\* backquote (96) or the invisible U+007F..U+00A0 and U+00AD: those are all
\* written "?", so Chr is exact on the other codes only.
CharTable ==
  <<
     "?", "?", "?", "?", "?", "?", "?", "?", "?", "\t", "\n", "?", "\f", "\r", "?", "?",
     "?", "?", "?", "?", "?", "?", "?", "?", "?", "?", "?", "?", "?", "?", "?", "?",
     " ", "!", "\"", "#", "$", "%", "&", "'", "(", ")", "*", "+", ",", "-", ".", "/",
     "0", "1", "2", "3", "4", "5", "6", "7", "8", "9", ":", ";", "<", "=", ">", "?",
     "@", "A", "B", "C", "D", "E", "F", "G", "H", "I", "J", "K", "L", "M", "N", "O",
     "P", "Q", "R", "S", "T", "U", "V", "W", "X", "Y", "Z", "[", "\\", "]", "^", "_",
     "?", "a", "b", "c", "d", "e", "f", "g", "h", "i", "j", "k", "l", "m", "n", "o",
     "p", "q", "r", "s", "t", "u", "v", "w", "x", "y", "z", "{", "|", "}", "~", "?",
     "?", "?", "?", "?", "?", "?", "?", "?", "?", "?", "?", "?", "?", "?", "?", "?",
     "?", "?", "?", "?", "?", "?", "?", "?", "?", "?", "?", "?", "?", "?", "?", "?",
     "?", "¡", "¢", "£", "¤", "¥", "¦", "§", "¨", "©", "ª", "«", "¬", "?", "®", "¯",
     "°", "±", "²", "³", "´", "µ", "¶", "·", "¸", "¹", "º", "»", "¼", "½", "¾", "¿",
     "À", "Á", "Â", "Ã", "Ä", "Å", "Æ", "Ç", "È", "É", "Ê", "Ë", "Ì", "Í", "Î", "Ï",
     "Ð", "Ñ", "Ò", "Ó", "Ô", "Õ", "Ö", "×", "Ø", "Ù", "Ú", "Û", "Ü", "Ý", "Þ", "ß",
     "à", "á", "â", "ã", "ä", "å", "æ", "ç", "è", "é", "ê", "ë", "ì", "í", "î", "ï",
     "ð", "ñ", "ò", "ó", "ô", "õ", "ö", "÷", "ø", "ù", "ú", "û", "ü", "ý", "þ", "ÿ"
  >>

\* `code as char` for a u8 code
Chr(code) == CharTable[code + 1]

\* str::trim().is_empty(): whether a string holds white space only.  TLA+
\* strings cannot be scanned, so the blank strings of the modelled inputs are
\* listed.
trim_is_empty(s) == s \in {"", " ", "  ", "\t"}

\* ------------------------------------------------------------------------
\* BlockStyle (lib.rs:34-68)
BlockStyle_new ==
  [bold |-> FALSE, italics |-> FALSE, underline |-> FALSE, strike |-> FALSE, size |-> None]

BlockStyle_combine_with_own_first(self, other) ==
  [bold |-> self.bold \/ other.bold,
   italics |-> self.italics \/ other.italics,
   underline |-> self.underline \/ other.underline,
   strike |-> self.strike \/ other.strike,
   size |-> IF IsSome(self.size) THEN self.size ELSE other.size]

\* BlockStyle::combine_with (lib.rs:59-67)
BlockStyle_combine_with(self, other) ==
  [bold |-> other.bold,
   italics |-> other.italics,
   underline |-> other.underline,
   strike |-> other.strike,
   size |-> IF IsSome(other.size) THEN other.size ELSE self.size]

\* ParagraphStyle (lib.rs:85-124)
ParagraphStyle_default ==
  [style_id |-> None, outline_lvl |-> None, numbering |-> None,
   page_break_before |-> None, style |-> None]

ParagraphStyle_combine_with_named_first(self, other) ==
  [style_id |-> OptionOr(other.style_id, self.style_id),
   outline_lvl |-> OptionOr(other.outline_lvl, self.outline_lvl),
   page_break_before |-> OptionOr(other.page_break_before, self.page_break_before),
   numbering |-> IF other.numbering = None THEN self.numbering ELSE other.numbering,
   style |-> IF IsSome(self.style)
             THEN IF IsSome(other.style)
                  THEN Some(BlockStyle_combine_with(Unwrap(self.style), Unwrap(other.style)))
                  ELSE self.style
             ELSE other.style]

\* ParagraphStyle::combine_with (lib.rs:109-123)
ParagraphStyle_combine_with(self, other) ==
  [style_id |-> OptionOr(self.style_id, other.style_id),
   outline_lvl |-> OptionOr(self.outline_lvl, other.outline_lvl),
   page_break_before |-> OptionOr(self.page_break_before, other.page_break_before),
   numbering |-> IF self.numbering = None THEN other.numbering ELSE self.numbering,
   style |-> IF IsSome(self.style)
             THEN IF IsSome(other.style)
                  THEN Some(BlockStyle_combine_with(Unwrap(self.style), Unwrap(other.style)))
                  ELSE self.style
             ELSE other.style]

\* ------------------------------------------------------------------------
\* lib.rs:214-222: the style a block is rendered with
block_render_style(block, paragraph_style) ==
  LET own == IF IsSome(block.style) THEN Unwrap(block.style) ELSE BlockStyle_new
  IN IF IsSome(paragraph_style.style)
     THEN BlockStyle_combine_with(own, Unwrap(paragraph_style.style))
     ELSE own

TextBlock_to_markdown_strike_first(block, paragraph_style) ==
  LET style == block_render_style(block, paragraph_style)
      m0 == block.text
      m1 == IF style.strike THEN "~~" \o m0 \o "~~" ELSE m0
      m2 == IF style.underline THEN "__" \o m1 \o "__" ELSE m1
      m3 == IF style.italics THEN "*" \o m2 \o "*" ELSE m2
      m4 == IF style.bold THEN "**" \o m3 \o "**" ELSE m3
  IN m4

\* TextBlock::to_markdown (lib.rs:211-244)
TextBlock_to_markdown(block, paragraph_style) ==
  LET style == block_render_style(block, paragraph_style)
      m0 == block.text
      m1 == IF style.bold THEN "**" \o m0 \o "**" ELSE m0
      m2 == IF style.italics THEN "*" \o m1 \o "*" ELSE m1
      m3 == IF style.underline THEN "__" \o m2 \o "__" ELSE m2
      m4 == IF style.strike THEN "~~" \o m3 \o "~~" ELSE m3
  IN m4

\* ------------------------------------------------------------------------
\* MarkdownParagraph::to_markdown (lib.rs:263-331)

\* lib.rs:271-282: the paragraph's own style, combined once with the named
\* style its style_id names, when the table holds it
effective_style(paragraph, styles) ==
  LET style == IF IsSome(paragraph.style) THEN Unwrap(paragraph.style)
               ELSE ParagraphStyle_default
  IN IF IsSome(style.style_id) /\ Unwrap(style.style_id) \in DOMAIN styles
     THEN ParagraphStyle_combine_with(style, styles[Unwrap(style.style_id)])
     ELSE style

heading_level_clamp4(outline_lvl) ==
  CASE outline_lvl = 0 -> "# "
    [] outline_lvl = 1 -> "## "
    [] outline_lvl = 2 -> "### "
    [] outline_lvl = 3 -> "#### "
    [] OTHER -> "##### "

\* lib.rs:287-294
heading_level(outline_lvl) ==
  CASE outline_lvl = 0 -> "# "
    [] outline_lvl = 1 -> "## "
    [] outline_lvl = 2 -> "### "
    [] outline_lvl = 3 -> "#### "
    [] outline_lvl = 4 -> "##### "
    [] OTHER -> "###### "

\* lib.rs:285-296
heading_prefix(style) ==
  IF IsSome(style.outline_lvl) THEN heading_level(Unwrap(style.outline_lvl)) ELSE ""

\* lib.rs:300-304
indentation(numbering) ==
  IF IsSome(numbering.indent_level) /\ Unwrap(numbering.indent_level) > 0
  THEN Repeat("    ", Unwrap(numbering.indent_level))
  ELSE ""

\* The names NumberFormat::from_str accepts (docx_rust's ST_NumberFormat
\* values); the five the match of lib.rs:311-321 tells apart, and others that
\* parse and fall to its last arm.
RecognizedFormats ==
  {"decimal", "upperRoman", "lowerRoman", "upperLetter", "lowerLetter", "bullet",
   "ordinal", "cardinalText", "ordinalText", "none"}

\* lib.rs:306-309: the format of the definition, Decimal when it has no format
\* string or one that does not parse
number_format(definition) ==
  IF IsSome(definition.format) /\ Unwrap(definition.format) \in RecognizedFormats
  THEN Unwrap(definition.format)
  ELSE "decimal"

\* `(count as u8) + base` (lib.rs:312-315): the cast keeps the low 8 bits; the
\* u8 sum wraps in a build without overflow checks and panics in one with them
u8_add_outcomes(count, base) ==
  LET sum == (count % 256) + base
  IN IF sum > 255 THEN {[panic |-> TRUE, code |-> 0], [panic |-> FALSE, code |-> sum % 256]}
     ELSE {[panic |-> FALSE, code |-> sum]}

letter_symbols(count, base) ==
  {[panic |-> o.panic, symbol |-> IF o.panic THEN "" ELSE Chr(o.code) \o "."] :
     o \in u8_add_outcomes(count, base)}

numbering_symbol_bullet_always_dash(format, level_text, count) ==
  CASE format = "upperRoman" -> letter_symbols(count, 73)
    [] format = "lowerRoman" -> letter_symbols(count, 105)
    [] format = "upperLetter" -> letter_symbols(count, 65)
    [] format = "lowerLetter" -> letter_symbols(count, 97)
    [] format = "bullet" -> {[panic |-> FALSE, symbol |-> "-"]}
    [] OTHER -> {[panic |-> FALSE, symbol |-> Decimal(count + 1) \o "."]}

\* lib.rs:311-321: the symbols the match can yield for a format, the
\* definition's level text and the count read from the counter
numbering_symbol(format, level_text, count) ==
  CASE format = "upperRoman" -> letter_symbols(count, 73)
    [] format = "lowerRoman" -> letter_symbols(count, 105)
    [] format = "upperLetter" -> letter_symbols(count, 65)
    [] format = "lowerLetter" -> letter_symbols(count, 97)
    [] format = "bullet" ->
         {[panic |-> FALSE,
           symbol |-> IF IsSome(level_text) /\ trim_is_empty(Unwrap(level_text))
                      THEN " " ELSE "-"]}
    [] OTHER -> {[panic |-> FALSE, symbol |-> Decimal(count + 1) \o "."]}

\* HashMap::entry(id).or_insert(0) (lib.rs:310)
entry_or_insert(counters, id) ==
  IF id \in DOMAIN counters THEN counters ELSE counters @@ (id :> 0)

increment_twice(counters, id) == [counters EXCEPT ![id] = @ + 2]

\* `*count += 1` (lib.rs:322)
increment(counters, id) == [counters EXCEPT ![id] = @ + 1]

RECURSIVE blocks_to_markdown(_, _)
\* lib.rs:327-329
blocks_to_markdown(blocks, style) ==
  IF blocks = <<>> THEN ""
  ELSE TextBlock_to_markdown(Head(blocks), style) \o blocks_to_markdown(Tail(blocks), style)

Panicked(why) ==
  [status |-> "panic", why |-> why, markdown |-> "", numberings |-> <<>>, marker |-> None]

\* The outcomes of one call of MarkdownParagraph::to_markdown: the string
\* returned and the counters as the call leaves them, or a panic.  `marker`
\* records the list id, the count read and the symbol of a numbered paragraph.
MarkdownParagraph_to_markdown(paragraph, styles, counters, document) ==
  LET style == effective_style(paragraph, styles)
      heading == heading_prefix(style)
      body == blocks_to_markdown(paragraph.blocks, style)
  IN IF style.numbering = None
     THEN {[status |-> "ok", why |-> "", markdown |-> heading \o body,
            numberings |-> counters, marker |-> None]}
     ELSE LET numbering == Unwrap(style.numbering)
              indent == indentation(numbering)
          IN IF numbering.id = None
             THEN {[status |-> "ok", why |-> "", markdown |-> heading \o indent \o body,
                    numberings |-> counters, marker |-> None]}
             ELSE LET id == Unwrap(numbering.id)
                  IN IF id \notin DOMAIN document.numberings
                     THEN {Panicked("numberings index")}
                     ELSE LET definition == document.numberings[id]
                              inserted == entry_or_insert(counters, id)
                              count == inserted[id]
                          IN {IF s.panic THEN Panicked("u8 overflow")
                              ELSE [status |-> "ok", why |-> "",
                                    markdown |-> heading \o indent \o s.symbol \o " " \o body,
                                    numberings |-> increment(inserted, id),
                                    marker |-> Some([id |-> id, count |-> count,
                                                     symbol |-> s.symbol])] :
                                s \in numbering_symbol(number_format(definition),
                                                       definition.level_text, count)}

\* ------------------------------------------------------------------------
\* Tables (lib.rs:641-702)

\* The paragraphs of a table as <<row, cell, paragraph>>, in the order the
\* nested iterators of lib.rs:642-670 render them
table_paragraphs(table) ==
  Flatten([r \in 1..Len(table) |->
    Flatten([c \in 1..Len(table[r].cells) |->
      [p \in 1..Len(table[r].cells[c]) |-> <<r, c, p>>]])])

position(coords, x) == CHOOSE i \in 1..Len(coords) : coords[i] = x

RECURSIVE cell_fold(_, _, _)
\* lib.rs:648-664: the fold over a cell's rendered paragraphs, i zero-based
cell_fold(content, mds, i) ==
  IF i >= Len(mds) THEN content
  ELSE cell_fold(IF i + 1 < Len(mds) THEN content \o mds[i + 1] \o "<br/>"
                 ELSE content \o mds[i + 1],
                 mds, i + 1)

\* lib.rs:642-670: (is_header, one string per cell) for every row, from the
\* rendered paragraphs of the table
table_with_simple_cells(table, rendered) ==
  LET coords == table_paragraphs(table)
  IN [r \in 1..Len(table) |->
       [is_header |-> table[r].is_header,
        row |-> [c \in 1..Len(table[r].cells) |->
                  cell_fold("", [p \in 1..Len(table[r].cells[c]) |->
                                   rendered[position(coords, <<r, c, p>>)]], 0)]]]

Max(S) == CHOOSE m \in S : \A x \in S : x <= m

\* utils::max_lengths_per_column: for every column index present in any row,
\* the greatest cell length at that index over the rows, and at least `min`
max_lengths_per_column(rows, min) ==
  LET num_columns == Max({0} \cup {Len(rows[r].row) : r \in 1..Len(rows)})
  IN [col \in 1..num_columns |->
       Max({min} \cup {Len(rows[r].row[col]) :
                         r \in {q \in 1..Len(rows) : col <= Len(rows[q].row)}})]

\* format!("{:width$}"): a string padded with spaces on the right
pad(cell, width) == cell \o Repeat(" ", width - Len(cell))

\* utils::table_row_to_markdown: "| c1 | c2 |" and a newline, each cell padded
\* to its column's length
table_row_to_markdown(column_lengths, row) ==
  "|" \o Concat([i \in 1..Len(row) |-> " " \o pad(row[i], column_lengths[i]) \o " |"]) \o "\n"

column_lengths_min1(rows) == max_lengths_per_column(rows, 1)

\* lib.rs:671
column_lengths_of(rows) == max_lengths_per_column(rows, 3)

\* lib.rs:674
dashes(column_lengths) ==
  [i \in 1..Len(column_lengths) |-> Repeat("-", column_lengths[i])]

\* lib.rs:672-675
divider_of(column_lengths) == table_row_to_markdown(column_lengths, dashes(column_lengths))

\* lib.rs:685-688
blank_header(column_lengths) ==
  table_row_to_markdown(column_lengths, [i \in 1..Len(column_lengths) |-> ""])

pushed_header_skipped(rows, column_lengths, i) ==
  LET markdown_row == table_row_to_markdown(column_lengths, rows[i + 1].row)
  IN (IF i = 0
      THEN IF rows[i + 1].is_header
           THEN <<markdown_row, divider_of(column_lengths)>>
           ELSE <<blank_header(column_lengths), divider_of(column_lengths)>>
      ELSE <<markdown_row>>)
     \o (IF i = Len(rows) THEN <<"\n">> ELSE <<>>)

\* lib.rs:678-698: the strings the fold's closure pushes for row i (zero-based)
pushed(rows, column_lengths, i) ==
  LET markdown_row == table_row_to_markdown(column_lengths, rows[i + 1].row)
  IN (IF i = 0
      THEN IF rows[i + 1].is_header
           THEN <<markdown_row, divider_of(column_lengths)>>
           ELSE <<blank_header(column_lengths), divider_of(column_lengths), markdown_row>>
      ELSE <<markdown_row>>)
     \o (IF i = Len(rows) THEN <<"\n">> ELSE <<>>)

\* lib.rs:676-700: everything the fold pushes, in order; the table's Markdown
\* is the concatenation
table_pieces(rows, column_lengths) ==
  Flatten([k \in 1..Len(rows) |-> pushed(rows, column_lengths, k - 1)])

\* ------------------------------------------------------------------------
\* MarkdownParagraph::from_paragraph (lib.rs:334-459) and what it reads of
\* the parsed document: a character property holds an optional size and, for
\* each toggle, whether the element is present.

\* lib.rs:346-371, and lib.rs:148-170 for a paragraph's run properties
apply_character_property(block_style, character_property) ==
  [size |-> IF IsSome(character_property.size) THEN character_property.size
            ELSE block_style.size,
   bold |-> block_style.bold \/ character_property.bold,
   underline |-> block_style.underline \/ character_property.underline,
   italics |-> block_style.italics \/ character_property.italics
               \/ character_property.emphasis,
   strike |-> block_style.strike \/ character_property.strike \/ character_property.dstrike]

\* lib.rs:346-371: the BlockStyle of a run, None for a run without property
block_style_of(property) ==
  IF IsSome(property) THEN Some(apply_character_property(BlockStyle_new, Unwrap(property)))
  ELSE None

RECURSIVE fold_run_properties(_, _)
\* lib.rs:149-169
fold_run_properties(block_style, r_pr) ==
  IF r_pr = <<>> THEN block_style
  ELSE fold_run_properties(apply_character_property(block_style, Head(r_pr)), Tail(r_pr))

\* From<&ParagraphProperty> for ParagraphStyle (lib.rs:126-174)
paragraph_style_from(paragraph_property) ==
  [style_id |-> paragraph_property.style_id,
   outline_lvl |-> paragraph_property.outline_lvl,
   page_break_before |-> IF IsSome(paragraph_property.page_break_before)
                         THEN Unwrap(paragraph_property.page_break_before)
                         ELSE None,
   numbering |-> IF IsSome(paragraph_property.numbering)
                 THEN Some([id |-> Unwrap(paragraph_property.numbering).id,
                            indent_level |-> Unwrap(paragraph_property.numbering).level,
                            format |-> None, level_text |-> None])
                 ELSE None,
   style |-> IF paragraph_property.r_pr # <<>>
             THEN Some(fold_run_properties(BlockStyle_new, paragraph_property.r_pr))
             ELSE None]

\* TextBlock::new (lib.rs:203-209)
TextBlock_new(text, style, text_type) == [text_type |-> text_type, style |-> style, text |-> text]

could_extend_any_block(prev_block, block_style) == prev_block.style = block_style

could_extend_styled_text(prev_block, block_style) ==
  block_style # None /\ prev_block.style = block_style /\ prev_block.text_type = "Text"

\* lib.rs:373 and 381-382: the last block takes the text when its style is the
\* run's and it is a Text block
could_extend_text(prev_block, block_style) ==
  prev_block.style = block_style /\ prev_block.text_type = "Text"

\* lib.rs:377-393: the blocks after a text of a run with block_style
push_text(blocks, text, block_style) ==
  IF blocks # <<>> /\ could_extend_text(blocks[Len(blocks)], block_style)
  THEN [blocks EXCEPT ![Len(blocks)].text = @ \o text]
  ELSE Append(blocks, TextBlock_new(text, block_style, "Text"))

get_target_or_empty(document_rels, id) ==
  IF IsSome(document_rels) /\ id \in DOMAIN Unwrap(document_rels)
  THEN Some(Unwrap(document_rels)[id])
  ELSE Some("")

\* Relationships::get_target (lib.rs:403) and the find_map of lib.rs:429-435
get_target(document_rels, id) ==
  IF IsSome(document_rels) /\ id \in DOMAIN Unwrap(document_rels)
  THEN Some(Unwrap(document_rels)[id])
  ELSE None

\* lib.rs:394-417: the blocks after a drawing
push_drawing(blocks, drawing, document_rels) ==
  IF drawing.inline /\ drawing.graphic /\ IsSome(get_target(document_rels, drawing.embed))
  THEN Append(blocks,
              TextBlock_new("![" \o (IF IsSome(drawing.descr) THEN Unwrap(drawing.descr) ELSE "")
                            \o "](./" \o Unwrap(get_target(document_rels, drawing.embed)) \o ")",
                            None, "Image"))
  ELSE blocks

\* lib.rs:424-441
link_target(link, document_rels) ==
  IF IsSome(link.anchor) THEN Some("#" \o Unwrap(link.anchor))
  ELSE IF IsSome(link.id) THEN get_target(document_rels, Unwrap(link.id))
  ELSE None

\* lib.rs:422-447: the blocks after a hyperlink, whose description is the
\* first content of its run
push_link(blocks, link, document_rels) ==
  LET descr == IF IsSome(link.content) /\ Unwrap(link.content).content # <<>>
               THEN Some(Unwrap(link.content).content[1])
               ELSE None
      target == link_target(link, document_rels)
  IN IF IsSome(descr) /\ Unwrap(descr).kind = "Text" /\ IsSome(target)
     THEN Append(blocks, TextBlock_new("[" \o Unwrap(descr).text \o "](" \o Unwrap(target) \o ")",
                                       None, "Link"))
     ELSE blocks

\* lib.rs:448-454
push_bookmark(blocks, bookmark_start) ==
  IF IsSome(bookmark_start.name)
  THEN Append(blocks, TextBlock_new("<a name=\"" \o Unwrap(bookmark_start.name) \o "\"></a>",
                                    None, "BookmarkLink"))
  ELSE blocks

RECURSIVE run_contents(_, _, _, _)
\* lib.rs:375-420: the blocks after the contents of one run
run_contents(blocks, block_style, content, document_rels) ==
  IF content = <<>> THEN blocks
  ELSE run_contents(CASE Head(content).kind = "Text" ->
                           push_text(blocks, Head(content).text, block_style)
                      [] Head(content).kind = "Drawing" ->
                           push_drawing(blocks, Head(content), document_rels)
                      [] OTHER -> blocks,
                    block_style, Tail(content), document_rels)

RECURSIVE paragraph_contents(_, _, _)
\* lib.rs:343-457: the blocks after the contents of a paragraph
paragraph_contents(blocks, content, document_rels) ==
  IF content = <<>> THEN blocks
  ELSE paragraph_contents(CASE Head(content).kind = "Run" ->
                                 run_contents(blocks, block_style_of(Head(content).property),
                                              Head(content).content, document_rels)
                            [] Head(content).kind = "Link" ->
                                 push_link(blocks, Head(content), document_rels)
                            [] Head(content).kind = "BookmarkStart" ->
                                 push_bookmark(blocks, Head(content))
                            [] OTHER -> blocks,
                          Tail(content), document_rels)

\* MarkdownParagraph::from_paragraph (lib.rs:334-459) as a whole
from_paragraph(paragraph, archive) ==
  [style |-> IF IsSome(paragraph.property)
             THEN Some(paragraph_style_from(Unwrap(paragraph.property)))
             ELSE None,
   blocks |-> paragraph_contents(<<>>, paragraph.content, archive.document_rels)]

\* ------------------------------------------------------------------------
\* The documents rendered.  MarkdownDocument's fields are public (lib.rs:464-
\* 472), so a caller can hold any value of the type; from_reader builds the
\* same shapes.

\* content items per document
MaxContent == 2

\* numbered items in a row, in the documents that vary the list format
MaxItems == 3

\* the outline levels tried run from -NegOutline to MaxOutline, and one far
\* beyond
NegOutline == 2

MaxOutline == 6

\* to_markdown calls made on one document, one after the other
MaxCalls == 2

\* to_markdown calls made on one document by the two threads together
MaxConcCalls == 3

OutlineLevels == ((0 - NegOutline)..MaxOutline) \cup {1000}

Numbering(id, indent_level) ==
  [id |-> id, indent_level |-> indent_level, format |-> None, level_text |-> None]

\* an entry of MarkdownDocument::numberings, as lib.rs:511-525 builds it
Definition(id, format, level_text) ==
  [id |-> Some(id), indent_level |-> None, format |-> format, level_text |-> level_text]

Style(style_id, outline_lvl, numbering, style) ==
  [style_id |-> style_id, outline_lvl |-> outline_lvl, numbering |-> numbering,
   page_break_before |-> None, style |-> style]

Bold == [BlockStyle_new EXCEPT !.bold = TRUE]

Text(text, style) == [text_type |-> "Text", style |-> style, text |-> text]

Para(style, blocks) == [style |-> style, blocks |-> blocks]

NoParagraph == Para(None, <<>>)

ParagraphItem(paragraph) == [tag |-> "Paragraph", paragraph |-> paragraph, table |-> <<>>]

TableItem(table) == [tag |-> "Table", paragraph |-> NoParagraph, table |-> table]

Row(is_header, cells) == [is_header |-> is_header, cells |-> cells]

Plain(text) == Para(None, <<Text(text, None)>>)

Numbered(id, indent_level, text) ==
  Para(Some(Style(None, None, Some(Numbering(id, indent_level)), None)), <<Text(text, None)>>)

Heading(outline_lvl, style_id) ==
  Para(Some(Style(style_id, outline_lvl, None, None)), <<Text("x", None)>>)

Hello == Para(Some(Style(None, Some(0), None, None)), <<Text("Hello", Some(Bold))>>)

NamedStyles ==
  ("Heading1" :> Style(None, Some(0), None, None))
  @@ ("Deep" :> Style(None, Some(7), None, None))
  @@ ("ListParagraph" :> Style(None, None, Some(Numbering(Some(1), Some(0))), None))
  @@ ("Quote" :> Style(None, None, None, Some([BlockStyle_new EXCEPT !.underline = TRUE])))
  @@ ("Chain" :> [Style(Some("Heading1"), None, None, None) EXCEPT
                    !.page_break_before = Some(TRUE)])

BaseDefinitions ==
  (1 :> Definition(1, Some("decimal"), Some("%1.")))
  @@ (2 :> Definition(2, Some("upperLetter"), Some("%1)")))

Document(title, content, definitions, images) ==
  [title |-> title, content |-> content, styles |-> NamedStyles,
   numberings |-> definitions, images |-> images]

ParagraphPool ==
  {Plain("x"),
   Hello,
   Numbered(Some(1), None, "a"),
   Para(Some(Style(None, Some(1), Some(Numbering(Some(1), Some(1))), None)),
        <<Text("b", None)>>),
   Numbered(Some(2), Some(0), "c"),
   Numbered(Some(3), None, "d"),
   Para(Some(Style(Some("ListParagraph"), None, None, None)), <<Text("e", None)>>),
   Numbered(None, Some(2), "f")}

TablePool ==
  {<<>>,
   <<Row(TRUE, <<>>)>>,
   <<Row(TRUE, << <<Plain("A")>>, <<Plain("B")>> >>),
     Row(FALSE, << <<Plain("1")>>, <<Plain("22")>> >>)>>,
   <<Row(FALSE, << <<Numbered(Some(1), None, "a"), Numbered(Some(2), None, "c")>> >>),
     Row(FALSE, << <<Plain("x")>>, <<Numbered(Some(1), Some(1), "b")>> >>)>>,
   <<Row(FALSE, << <<Plain("x")>> >>),
     Row(TRUE, << <<Plain("head")>>, <<Plain("wider")>> >>)>>}

ContentPool == {ParagraphItem(p) : p \in ParagraphPool} \cup {TableItem(t) : t \in TablePool}

SeqsUpTo(S, n) == UNION {[1..k -> S] : k \in 0..n}

GeneralDocs ==
  {Document(title, content, BaseDefinitions, <<>>) :
     title \in {None, Some("T")}, content \in SeqsUpTo(ContentPool, MaxContent)}

Formats ==
  {None, Some("decimal"), Some("upperRoman"), Some("lowerRoman"), Some("upperLetter"),
   Some("lowerLetter"), Some("ordinal"), Some("bogus"), Some("")}

LevelTexts == {None, Some(""), Some(" "), Some("o"), Some("%1.")}

FormatDefinitions ==
  {Definition(1, format, Some("%1.")) : format \in Formats}
  \cup {Definition(1, Some("bullet"), level_text) : level_text \in LevelTexts}

FormatDocs ==
  {Document(None, [i \in 1..n |-> ParagraphItem(Numbered(Some(1), None, "a"))],
            (1 :> definition), <<>>) :
     definition \in FormatDefinitions, n \in 1..MaxItems}

HeadingDocs ==
  {Document(None, <<ParagraphItem(Heading(outline_lvl, style_id))>>, BaseDefinitions, <<>>) :
     outline_lvl \in {None} \cup {Some(l) : l \in OutlineLevels},
     style_id \in {None, Some("Heading1"), Some("Deep"), Some("Missing")}}

ImageDocs ==
  {Document(None, <<ParagraphItem(Plain("![](./media/image1.png)"))>>, BaseDefinitions,
            ("rId4" :> "png"))}

\* every BlockStyle with no size or one size
BlockStyles ==
  {[bold |-> b, italics |-> i, underline |-> u, strike |-> s, size |-> z] :
     b \in BOOLEAN, i \in BOOLEAN, u \in BOOLEAN, s \in BOOLEAN, z \in {None, Some(19)}}

\* the run-default styles of the paragraphs
RunDefaults ==
  {None,
   Some(BlockStyle_new),
   Some([BlockStyle_new EXCEPT !.italics = TRUE, !.size = Some(24)]),
   Some([BlockStyle_new EXCEPT !.bold = TRUE, !.strike = TRUE])}

\* documents that vary a block's own style, its paragraph's run-default style
\* and the named style
StyleDocs ==
  {Document(None,
            <<ParagraphItem(Para(Some(Style(style_id, None, None, run_default)),
                                 <<Text("x", own), Text("y", None)>>))>>,
            BaseDefinitions, <<>>) :
     style_id \in {None, Some("Quote")},
     run_default \in RunDefaults,
     own \in {None} \cup {Some(b) : b \in BlockStyles}}

\* documents that vary which of a paragraph's local values are present, and
\* the named style its style id names
CascadeDocs ==
  {Document(None,
            <<ParagraphItem(Para(Some([style_id |-> style_id, outline_lvl |-> outline_lvl,
                                       numbering |-> numbering,
                                       page_break_before |-> page_break_before,
                                       style |-> None]),
                                 <<Text("x", None)>>))>>,
            BaseDefinitions, <<>>) :
     style_id \in {None, Some("Heading1"), Some("ListParagraph"), Some("Chain"),
                   Some("Missing")},
     outline_lvl \in {None, Some(2)},
     numbering \in {None, Some(Numbering(Some(2), None))},
     page_break_before \in {None, Some(FALSE)}}

Docs ==
  GeneralDocs \cup FormatDocs \cup HeadingDocs \cup ImageDocs \cup StyleDocs \cup CascadeDocs

\* numbered paragraphs of one list in the long documents: the counter passes
\* 255
LongList == 258

\* documents with one long list in a letter or roman format, its first item
\* in a table cell
LongDocs ==
  {Document(None,
            <<TableItem(<<Row(FALSE, << <<Numbered(Some(1), None, "a")>> >>)>>)>>
            \o [i \in 1..(LongList - 1) |-> ParagraphItem(Numbered(Some(1), None, "a"))],
            (1 :> Definition(1, Some(format), Some("%1."))), <<>>) :
     format \in {"upperLetter", "lowerLetter", "upperRoman", "lowerRoman"}}

ConcDocs ==
  {Document(None, content, BaseDefinitions, <<>>) :
     content \in {<<ParagraphItem(Numbered(Some(1), None, "a")),
                    ParagraphItem(Numbered(Some(2), None, "c")),
                    ParagraphItem(Numbered(Some(1), Some(1), "b"))>>,
                  <<ParagraphItem(Numbered(Some(1), None, "a")),
                    TableItem(<<Row(FALSE, << <<Numbered(Some(1), None, "a")>>,
                                              <<Numbered(Some(2), None, "c")>> >>)>>)>>,
                  <<ParagraphItem(Plain("x")), ParagraphItem(Numbered(Some(3), None, "d"))>>,
                  <<>>}}

Threads == {"t1", "t2"}

\* ------------------------------------------------------------------------
\* The parsed paragraphs normalized: a paragraph of the docx_rust tree with
\* the document's relationships (docx.document_rels)

\* content items per parsed paragraph
MaxRuns == 3

NoProperty ==
  [size |-> None, bold |-> FALSE, underline |-> FALSE, italics |-> FALSE,
   emphasis |-> FALSE, strike |-> FALSE, dstrike |-> FALSE]

RunText(text) ==
  [kind |-> "Text", text |-> text, inline |-> FALSE, graphic |-> FALSE, embed |-> "",
   descr |-> None]

RunDrawing(embed, descr) ==
  [kind |-> "Drawing", text |-> "", inline |-> TRUE, graphic |-> TRUE, embed |-> embed,
   descr |-> descr]

RunBreak ==
  [kind |-> "Break", text |-> "", inline |-> FALSE, graphic |-> FALSE, embed |-> "",
   descr |-> None]

RawRun(property, content) ==
  [kind |-> "Run", property |-> property, content |-> content, anchor |-> None,
   id |-> None, name |-> None]

RawLink(anchor, id, content) ==
  [kind |-> "Link", property |-> None, content |-> content, anchor |-> anchor,
   id |-> id, name |-> None]

RawBookmarkStart(name) ==
  [kind |-> "BookmarkStart", property |-> None, content |-> <<>>, anchor |-> None,
   id |-> None, name |-> name]

RawBookmarkEnd ==
  [kind |-> "BookmarkEnd", property |-> None, content |-> <<>>, anchor |-> None,
   id |-> None, name |-> None]

RawParagraphProperty(style_id, outline_lvl, numbering, r_pr) ==
  [style_id |-> style_id, outline_lvl |-> outline_lvl, page_break_before |-> None,
   numbering |-> numbering, r_pr |-> r_pr]

Relationships == ("rId1" :> "media/image1.png") @@ ("rId2" :> "https://example.org")

Input(property, content, document_rels) ==
  [property |-> property, content |-> content, document_rels |-> document_rels]

NoInput == Input(None, <<>>, None)

TextRunPool ==
  {RawRun(None, <<RunText("a")>>),
   RawRun(Some(NoProperty), <<RunText("b")>>),
   RawRun(Some([NoProperty EXCEPT !.bold = TRUE]), <<RunText("c")>>),
   RawRun(Some([NoProperty EXCEPT !.bold = TRUE]), <<RunText("d"), RunBreak, RunText("e")>>),
   RawRun(Some([NoProperty EXCEPT !.italics = TRUE]), <<RunText("f")>>),
   RawRun(Some([NoProperty EXCEPT !.emphasis = TRUE]), <<RunText("g")>>)}

OtherItemPool ==
  {RawRun(Some([NoProperty EXCEPT !.bold = TRUE]), <<RunText("h"), RunDrawing("rId1", None)>>),
   RawRun(None, <<RunDrawing("rId9", Some("lost"))>>),
   RawRun(Some([NoProperty EXCEPT !.bold = TRUE]), <<>>),
   RawLink(Some("top"), None, Some(RawRun(None, <<RunText("up")>>))),
   RawLink(None, Some("rId2"), Some(RawRun(None, <<RunText("site")>>))),
   RawBookmarkStart(Some("top")),
   RawBookmarkEnd}

RawItemPool == TextRunPool \cup OtherItemPool

\* references that may not resolve, between texts: a link without a run, a
\* link whose id is in no relationship table, a link with neither anchor nor
\* id, a link whose run starts with a break, a link and a drawing that
\* resolve only where there is a relationship table, and a drawing without an
\* inline part
ReferencePool ==
  {RawLink(Some("top"), None, None),
   RawLink(None, Some("rId7"), Some(RawRun(None, <<RunText("gone")>>))),
   RawLink(None, None, Some(RawRun(None, <<RunText("bare")>>))),
   RawLink(Some("top"), None, Some(RawRun(None, <<RunBreak, RunText("late")>>))),
   RawLink(None, Some("rId2"), Some(RawRun(None, <<RunText("site")>>))),
   RawRun(Some([NoProperty EXCEPT !.bold = TRUE]),
          <<RunText("i"), RunDrawing("rId1", Some("pic")), RunText("j")>>),
   RawRun(None, <<[RunDrawing("rId1", None) EXCEPT !.inline = FALSE]>>),
   RawRun(Some([NoProperty EXCEPT !.bold = TRUE]), <<RunText("c")>>)}

RawInputs ==
  {Input(None, content, Some(Relationships)) : content \in SeqsUpTo(RawItemPool, MaxRuns)}
  \cup {Input(property, content, None) :
          property \in {None,
                        Some(RawParagraphProperty(Some("Heading1"), Some(0), None,
                                                  <<[NoProperty EXCEPT !.size = Some(24)],
                                                    [NoProperty EXCEPT !.dstrike = TRUE]>>)),
                        Some(RawParagraphProperty(None, None,
                                                  Some([id |-> Some(1), level |-> Some(0)]),
                                                  <<>>))},
          content \in SeqsUpTo(OtherItemPool, 1)}
  \cup {Input(None, content, document_rels) :
          document_rels \in {None, Some(Relationships)},
          content \in SeqsUpTo(ReferencePool, MaxRuns)}

\* ------------------------------------------------------------------------
\* The archives read: what MarkdownDocument::from_reader (lib.rs:490-616)
\* reads of a parsed docx_rust::Docx

\* body nodes per archive
MaxBody == 3

BodyParagraph(property, content) ==
  [kind |-> "Paragraph", property |-> property, content |-> content, rows |-> <<>>]

BodyTable(rows) == [kind |-> "Table", property |-> None, content |-> <<>>, rows |-> rows]

\* the body nodes the walk has no entry for
IgnoredKinds == {"Sdt", "SectionProperty", "TableCell", "Run"}

BodyOther(kind) == [kind |-> kind, property |-> None, content |-> <<>>, rows |-> <<>>]

\* a table row: its tblHeader property, if any, with its value, if any, and
\* its contents, each a cell with paragraphs or a structured tag
TableRow(table_header, cells) == [table_header |-> table_header, cells |-> cells]

TableCell(content) == [kind |-> "TableCell", content |-> content]

RowSdt == [kind |-> "Sdt", content |-> <<>>]

TextParagraph(text) == BodyParagraph(None, <<RawRun(None, <<RunText(text)>>)>>)

\* an entry of the numbering part: its numId, and the abstract numbering
\* numbering_details finds for it, if any, with its levels
Num(num_id, details) == [num_id |-> num_id, details |-> details]

Level(format, text) == [number_format |-> format, level_text |-> text]

DocxStyle(ty, style_id, paragraph) == [ty |-> ty, style_id |-> style_id, paragraph |-> paragraph]

Archive(readable, title, numbering, media, styles, document_rels, body) ==
  [readable |-> readable, title |-> title, numbering |-> numbering, media |-> media,
   styles |-> styles, document_rels |-> document_rels, body |-> body]

\* a reader that holds no docx archive
NoDocx == Archive(FALSE, None, None, <<>>, <<>>, None, <<>>)

BodyPool ==
  {TextParagraph("a"),
   BodyParagraph(None, <<>>),
   BodyParagraph(None, <<RawRun(None, <<RunDrawing("rId9", None)>>)>>),
   BodyParagraph(Some(RawParagraphProperty(Some("Heading1"), Some(0), None, <<>>)),
                 <<RawRun(Some([NoProperty EXCEPT !.bold = TRUE]), <<RunBreak>>)>>),
   BodyParagraph(None, <<RawBookmarkStart(Some("top"))>>),
   BodyTable(<<TableRow(Some(Some("On")),
                        <<TableCell(<<TextParagraph("A")>>), TableCell(<<TextParagraph("B")>>)>>)>>),
   BodyTable(<<>>),
   BodyTable(<<TableRow(Some(None),
                        <<RowSdt, TableCell(<<>>), TableCell(<<BodyParagraph(None, <<>>)>>)>>),
               TableRow(None, <<>>)>>)}
  \cup {BodyOther(kind) : kind \in IgnoredKinds}

\* archives that vary the body, and archives that vary what is read before
\* the body
DocxInputs ==
  {Archive(TRUE, None, None, <<>>, <<>>, Some(Relationships), body) :
     body \in SeqsUpTo(BodyPool, MaxBody)}
  \cup {Archive(TRUE, title, numbering, media, styles, None, <<TextParagraph("a")>>) :
          title \in {None, Some(""), Some("T")},
          numbering \in {None,
                         Some(<<Num(Some(1), Some(<<Level(Some("decimal"), Some("%1."))>>)),
                                Num(None, Some(<<Level(None, None)>>)),
                                Num(Some(2), None),
                                Num(Some(1), Some(<<Level(Some("bullet"), None),
                                                    Level(Some("decimal"), None)>>))>>),
                         Some(<<Num(Some(4), Some(<<>>))>>)},
          media \in {<<>>, ("image1.png" :> [ty |-> "Image", data |-> "png"])
                            @@ ("movie.mp4" :> [ty |-> "Video", data |-> "mp4"])},
          styles \in {<<>>,
                      <<DocxStyle(Some("Paragraph"), "Heading1",
                                  Some(RawParagraphProperty(None, Some(0), None, <<>>))),
                        DocxStyle(Some("Character"), "Strong",
                                  Some(RawParagraphProperty(None, Some(3), None, <<>>))),
                        DocxStyle(None, "Loose",
                                  Some(RawParagraphProperty(None, Some(4), None, <<>>))),
                        DocxStyle(Some("Paragraph"), "Empty", None)>>}}
  \cup {NoDocx}

\* ------------------------------------------------------------------------
\* MarkdownDocument::to_markdown (lib.rs:626-719), one step per paragraph
\* rendered.  pc[t] is where thread t is in its call; markdown[t] is the
\* call's local string; numberings holds each call's local counter map;
\* index[t] is the number of content items finished; cell_k[t] and
\* cells_md[t] are the paragraphs of the current table rendered so far.
\* trace, tables, returned and overlapped record what the calls did.

shared_counters(t) == "t1"

\* lib.rs:633: the counter map is a local of the call, so each call (one per
\* thread at a time) reads and writes its own
counters_of(t) == t

Running(t) == pc[t] = "running"

Item(t) == doc.content[index[t] + 1]

\* lib.rs:704-706
separator(t) == IF index[t] # Len(doc.content) - 1 THEN "\n" ELSE ""

InitWith(documents, first, paragraphs, archives) ==
  /\ docx \in archives
  /\ r_pc = "idle"
  /\ r_index = 0
  /\ kept = <<>>
  /\ raw \in paragraphs
  /\ n_pc = "idle"
  /\ n_item = 0
  /\ n_part = 0
  /\ markdown_paragraph = NoParagraph
  /\ origin = <<>>
  /\ doc \in documents
  /\ pc = [t \in Threads |-> IF t \in first THEN "idle" ELSE "unused"]
  /\ export_images = [t \in Threads |-> FALSE]
  /\ index = [t \in Threads |-> 0]
  /\ cell_k = [t \in Threads |-> 0]
  /\ cells_md = [t \in Threads |-> <<>>]
  /\ markdown = [t \in Threads |-> ""]
  /\ numberings = [t \in Threads |-> <<>>]
  /\ trace = [t \in Threads |-> <<>>]
  /\ tables = [t \in Threads |-> <<>>]
  /\ returned = <<>>
  /\ calls = 0
  /\ files = {}

Init == InitWith(Docs, {"t1"}, {NoInput}, {NoDocx})

InitConc == InitWith(ConcDocs, Threads, {NoInput}, {NoDocx})

to_markdown_begin_stale(t, export, limit) ==
  /\ pc[t] \in {"idle", "done"}
  /\ calls < limit
  /\ calls' = calls + 1
  /\ pc' = [pc EXCEPT ![t] = "running"]
  /\ export_images' = [export_images EXCEPT ![t] = export]
  /\ markdown' = [markdown EXCEPT
                    ![t] = IF IsSome(doc.title) THEN "# " \o Unwrap(doc.title) \o "\n\n" ELSE ""]
  /\ index' = [index EXCEPT ![t] = 0]
  /\ cell_k' = [cell_k EXCEPT ![t] = 0]
  /\ cells_md' = [cells_md EXCEPT ![t] = <<>>]
  /\ trace' = [trace EXCEPT ![t] = <<>>]
  /\ tables' = [tables EXCEPT ![t] = <<>>]
  /\ UNCHANGED <<doc, numberings, returned, files>>
  /\ UNCHANGED <<normVars, readVars>>

\* lib.rs:626-633: the call starts: the title heading, and a new counter map
to_markdown_begin(t, export, limit) ==
  /\ pc[t] \in {"idle", "done"}
  /\ calls < limit
  /\ calls' = calls + 1
  /\ pc' = [pc EXCEPT ![t] = "running"]
  /\ export_images' = [export_images EXCEPT ![t] = export]
  /\ markdown' = [markdown EXCEPT
                    ![t] = IF IsSome(doc.title) THEN "# " \o Unwrap(doc.title) \o "\n\n" ELSE ""]
  /\ numberings' = [numberings EXCEPT ![counters_of(t)] = <<>>]
  /\ index' = [index EXCEPT ![t] = 0]
  /\ cell_k' = [cell_k EXCEPT ![t] = 0]
  /\ cells_md' = [cells_md EXCEPT ![t] = <<>>]
  /\ trace' = [trace EXCEPT ![t] = <<>>]
  /\ tables' = [tables EXCEPT ![t] = <<>>]
  /\ UNCHANGED <<doc, returned, files>>
  /\ UNCHANGED <<normVars, readVars>>

\* What one call of MarkdownParagraph::to_markdown leaves in the state of
\* thread t's call, but for the string it returns: the counters, the record
\* of the call, or the panic
Rendered(t, paragraph, o) ==
  /\ trace' = [trace EXCEPT ![t] = Append(@, [paragraph |-> paragraph,
                                              before |-> numberings[counters_of(t)],
                                              out |-> o])]
  /\ IF o.status = "ok"
     THEN /\ numberings' = [numberings EXCEPT ![counters_of(t)] = o.numberings]
          /\ pc' = pc
     ELSE /\ numberings' = numberings
          /\ pc' = [pc EXCEPT ![t] = "panicked"]

\* lib.rs:637-640 and 704-706: a body paragraph
render_paragraph(t) ==
  /\ Running(t)
  /\ index[t] < Len(doc.content)
  /\ Item(t).tag = "Paragraph"
  /\ \E o \in MarkdownParagraph_to_markdown(Item(t).paragraph, doc.styles,
                                            numberings[counters_of(t)], doc) :
       /\ Rendered(t, Item(t).paragraph, o)
       /\ IF o.status = "ok"
          THEN /\ markdown' = [markdown EXCEPT ![t] = @ \o o.markdown \o "\n" \o separator(t)]
               /\ index' = [index EXCEPT ![t] = @ + 1]
          ELSE UNCHANGED <<markdown, index>>
  /\ UNCHANGED <<doc, export_images, cell_k, cells_md, tables, returned, calls, files>>
  /\ UNCHANGED <<normVars, readVars>>

\* lib.rs:651-655: the next paragraph of the table's cells
render_cell_paragraph(t) ==
  /\ Running(t)
  /\ index[t] < Len(doc.content)
  /\ Item(t).tag = "Table"
  /\ cell_k[t] < Len(table_paragraphs(Item(t).table))
  /\ LET at == table_paragraphs(Item(t).table)[cell_k[t] + 1]
         paragraph == Item(t).table[at[1]].cells[at[2]][at[3]]
     IN \E o \in MarkdownParagraph_to_markdown(paragraph, doc.styles,
                                               numberings[counters_of(t)], doc) :
          /\ Rendered(t, paragraph, o)
          /\ IF o.status = "ok"
             THEN /\ cells_md' = [cells_md EXCEPT ![t] = Append(@, o.markdown)]
                  /\ cell_k' = [cell_k EXCEPT ![t] = @ + 1]
             ELSE UNCHANGED <<cells_md, cell_k>>
  /\ UNCHANGED <<doc, export_images, index, markdown, tables, returned, calls, files>>
  /\ UNCHANGED <<normVars, readVars>>

\* lib.rs:642-706: with all its paragraphs rendered, the table is laid out
\* and appended
render_table(t) ==
  /\ Running(t)
  /\ index[t] < Len(doc.content)
  /\ Item(t).tag = "Table"
  /\ cell_k[t] = Len(table_paragraphs(Item(t).table))
  /\ LET rows == table_with_simple_cells(Item(t).table, cells_md[t])
         column_lengths == column_lengths_of(rows)
         pieces == table_pieces(rows, column_lengths)
     IN /\ markdown' = [markdown EXCEPT ![t] = @ \o Concat(pieces) \o separator(t)]
        /\ tables' = [tables EXCEPT ![t] = Append(@, [table |-> Item(t).table,
                                                      rows_md |-> cells_md[t],
                                                      rows |-> rows,
                                                      column_lengths |-> column_lengths,
                                                      pieces |-> pieces,
                                                      text |-> Concat(pieces)])]
  /\ index' = [index EXCEPT ![t] = @ + 1]
  /\ cell_k' = [cell_k EXCEPT ![t] = 0]
  /\ cells_md' = [cells_md EXCEPT ![t] = <<>>]
  /\ UNCHANGED <<doc, pc, export_images, numberings, trace, returned, calls, files>>
  /\ UNCHANGED <<normVars, readVars>>

\* utils::save_image_to_file for every image (lib.rs:709-716): each write
\* succeeds or fails, and a failure is only logged
save_images(written) ==
  /\ written \subseteq DOMAIN doc.images
  /\ files' = files \cup written

\* lib.rs:709-719: the images are exported when asked, and the string returned
to_markdown_end(t) ==
  /\ Running(t)
  /\ index[t] = Len(doc.content)
  /\ IF export_images[t]
     THEN \E written \in SUBSET (DOMAIN doc.images) : save_images(written)
     ELSE files' = files
  /\ returned' = Append(returned, [thread |-> t, markdown |-> markdown[t],
                                   alone |-> calls = 1,
                                   overlapped |-> \E u \in Threads \ {t} :
                                                    Running(u) /\ index[u] > 0])
  /\ pc' = [pc EXCEPT ![t] = "done"]
  /\ UNCHANGED <<doc, export_images, index, cell_k, cells_md, markdown, numberings,
                 trace, tables, calls>>
  /\ UNCHANGED <<normVars, readVars>>

Next ==
  \/ \E export \in BOOLEAN : to_markdown_begin("t1", export, MaxCalls)
  \/ render_paragraph("t1")
  \/ render_cell_paragraph("t1")
  \/ render_table("t1")
  \/ to_markdown_end("t1")

Spec == Init /\ [][Next]_vars

\* the calls on the long documents
InitLong == InitWith(LongDocs, {"t1"}, {NoInput}, {NoDocx})

SpecLong == InitLong /\ [][Next]_vars

NextConc ==
  \E t \in Threads :
    \/ to_markdown_begin(t, FALSE, MaxConcCalls)
    \/ render_paragraph(t)
    \/ render_cell_paragraph(t)
    \/ render_table(t)
    \/ to_markdown_end(t)

SpecConc == InitConc /\ [][NextConc]_vars

\* ------------------------------------------------------------------------
\* MarkdownParagraph::from_paragraph (lib.rs:334-459), one step per content
\* of a run and per other paragraph content.  n_item is the number of
\* paragraph contents finished and n_part the number of contents of the
\* current run finished.  origin records, for every block, the texts (item,
\* part) it was built from.

InitNorm == InitWith({Document(None, <<>>, <<>>, <<>>)}, {}, RawInputs, {NoDocx})

Normalizing == n_pc = "running" /\ n_item < Len(raw.content)

RawItem == raw.content[n_item + 1]

\* the loop variables after one content of a run, or after another item
Advance ==
  IF RawItem.kind = "Run" /\ n_part + 1 < Len(RawItem.content)
  THEN n_part' = n_part + 1 /\ n_item' = n_item
  ELSE n_part' = 0 /\ n_item' = n_item + 1

\* lib.rs:338-342
from_paragraph_begin ==
  /\ n_pc = "idle"
  /\ raw # NoInput
  /\ n_pc' = "running"
  /\ markdown_paragraph' =
       [style |-> IF IsSome(raw.property) THEN Some(paragraph_style_from(Unwrap(raw.property)))
                  ELSE None,
        blocks |-> <<>>]
  /\ origin' = <<>>
  /\ UNCHANGED <<raw, n_item, n_part>>
  /\ UNCHANGED <<renderVars, readVars>>

\* lib.rs:377-393: a text of a run
normalize_text ==
  /\ Normalizing
  /\ RawItem.kind = "Run"
  /\ n_part < Len(RawItem.content)
  /\ RawItem.content[n_part + 1].kind = "Text"
  /\ LET blocks == markdown_paragraph.blocks
         after == push_text(blocks, RawItem.content[n_part + 1].text,
                            block_style_of(RawItem.property))
     IN /\ markdown_paragraph' = [markdown_paragraph EXCEPT !.blocks = after]
        /\ origin' = IF Len(after) = Len(blocks)
                     THEN [origin EXCEPT ![Len(origin)] = Append(@, <<n_item + 1, n_part + 1>>)]
                     ELSE Append(origin, << <<n_item + 1, n_part + 1>> >>)
  /\ Advance
  /\ UNCHANGED <<raw, n_pc>>
  /\ UNCHANGED <<renderVars, readVars>>

\* lib.rs:394-417: a drawing of a run
normalize_drawing ==
  /\ Normalizing
  /\ RawItem.kind = "Run"
  /\ n_part < Len(RawItem.content)
  /\ RawItem.content[n_part + 1].kind = "Drawing"
  /\ LET after == push_drawing(markdown_paragraph.blocks, RawItem.content[n_part + 1],
                               raw.document_rels)
     IN /\ markdown_paragraph' = [markdown_paragraph EXCEPT !.blocks = after]
        /\ origin' = IF Len(after) = Len(origin) THEN origin ELSE Append(origin, <<>>)
  /\ Advance
  /\ UNCHANGED <<raw, n_pc>>
  /\ UNCHANGED <<renderVars, readVars>>

\* lib.rs:422-447
normalize_link ==
  /\ Normalizing
  /\ RawItem.kind = "Link"
  /\ LET after == push_link(markdown_paragraph.blocks, RawItem, raw.document_rels)
     IN /\ markdown_paragraph' = [markdown_paragraph EXCEPT !.blocks = after]
        /\ origin' = IF Len(after) = Len(origin) THEN origin ELSE Append(origin, <<>>)
  /\ Advance
  /\ UNCHANGED <<raw, n_pc>>
  /\ UNCHANGED <<renderVars, readVars>>

\* lib.rs:448-454
normalize_bookmark ==
  /\ Normalizing
  /\ RawItem.kind = "BookmarkStart"
  /\ LET after == push_bookmark(markdown_paragraph.blocks, RawItem)
     IN /\ markdown_paragraph' = [markdown_paragraph EXCEPT !.blocks = after]
        /\ origin' = IF Len(after) = Len(origin) THEN origin ELSE Append(origin, <<>>)
  /\ Advance
  /\ UNCHANGED <<raw, n_pc>>
  /\ UNCHANGED <<renderVars, readVars>>

\* lib.rs:418 and 455: the other contents of a run, a run without content and
\* the other paragraph contents leave the blocks alone
normalize_ignored ==
  /\ Normalizing
  /\ \/ RawItem.kind \notin {"Run", "Link", "BookmarkStart"}
     \/ RawItem.kind = "Run" /\ RawItem.content = <<>>
     \/ /\ RawItem.kind = "Run"
        /\ n_part < Len(RawItem.content)
        /\ RawItem.content[n_part + 1].kind \notin {"Text", "Drawing"}
  /\ Advance
  /\ UNCHANGED <<raw, n_pc, markdown_paragraph, origin>>
  /\ UNCHANGED <<renderVars, readVars>>

\* lib.rs:458
from_paragraph_end ==
  /\ n_pc = "running"
  /\ n_item = Len(raw.content)
  /\ n_pc' = "done"
  /\ UNCHANGED <<raw, n_item, n_part, markdown_paragraph, origin>>
  /\ UNCHANGED <<renderVars, readVars>>

NextNorm ==
  \/ from_paragraph_begin
  \/ normalize_text
  \/ normalize_drawing
  \/ normalize_link
  \/ normalize_bookmark
  \/ normalize_ignored
  \/ from_paragraph_end

SpecNorm == InitNorm /\ [][NextNorm]_vars

\* ------------------------------------------------------------------------
\* MarkdownDocument::from_reader (lib.rs:490-616), one step for what is read
\* before the body and one per body node.  r_index is the number of body
\* nodes finished; kept records, for every entry of the content, the body
\* node it was made from.

\* the variables of the rendering calls, but for the document
callVars == <<pc, export_images, index, cell_k, cells_md, markdown, numberings, trace,
              tables, returned, calls, files>>

\* MarkdownDocument::new (lib.rs:475-483)
MarkdownDocument_new ==
  [title |-> None, content |-> <<>>, styles |-> <<>>, numberings |-> <<>>, images |-> <<>>]

InitRead == InitWith({MarkdownDocument_new}, {}, {NoInput}, DocxInputs)

\* lib.rs:496-505
title_of(archive) ==
  IF IsSome(archive.title) /\ Unwrap(archive.title) # "" THEN archive.title ELSE None

\* lib.rs:509-510: the entries of the numbering part that are inserted
inserted_nums(nums) ==
  SelectSeq(nums, LAMBDA n : IsSome(n.num_id) /\ IsSome(n.details))

\* lib.rs:515 and 519: details.levels[0] is out of bounds
levels_missing(archive) ==
  /\ IsSome(archive.numbering)
  /\ \E k \in 1..Len(inserted_nums(Unwrap(archive.numbering))) :
       Unwrap(inserted_nums(Unwrap(archive.numbering))[k].details) = <<>>

RECURSIVE insert_numberings(_, _)
\* lib.rs:508-527: a later entry with the same id replaces an earlier one
insert_numberings(map, nums) ==
  IF nums = <<>> THEN map
  ELSE LET id == Unwrap(Head(nums).num_id)
           level == Unwrap(Head(nums).details)[1]
           entry == Definition(id, level.number_format, level.level_text)
       IN insert_numberings([k \in DOMAIN map \cup {id} |-> IF k = id THEN entry ELSE map[k]],
                            Tail(nums))

\* lib.rs:507-529
numberings_of(archive) ==
  IF IsSome(archive.numbering)
  THEN insert_numberings(<<>>, inserted_nums(Unwrap(archive.numbering)))
  ELSE <<>>

\* lib.rs:531-533
images_of(archive) ==
  [id \in {i \in DOMAIN archive.media : archive.media[i].ty = "Image"} |->
     archive.media[id].data]

RECURSIVE insert_styles(_, _)
\* lib.rs:535-544
insert_styles(map, styles) ==
  IF styles = <<>> THEN map
  ELSE LET style == Head(styles)
       IN insert_styles(IF style.ty = Some("Paragraph") /\ IsSome(style.paragraph)
                        THEN [k \in DOMAIN map \cup {style.style_id} |->
                                IF k = style.style_id
                                THEN paragraph_style_from(Unwrap(style.paragraph))
                                ELSE map[k]]
                        ELSE map,
                        Tail(styles))

\* lib.rs:561-566
is_header(row) == IsSome(row.table_header) /\ Unwrap(row.table_header) = Some("On")

\* lib.rs:567-591: the cells of a row: of its contents, the cells that hold
\* at least one paragraph, each paragraph normalized
cells_of(row, archive) ==
  LET cells == SelectSeq(row.cells, LAMBDA c : c.kind = "TableCell" /\ c.content # <<>>)
  IN [c \in 1..Len(cells) |->
        [q \in 1..Len(cells[c].content) |-> from_paragraph(cells[c].content[q], archive)]]

\* lib.rs:557-594
rows_columns(table, archive) ==
  [r \in 1..Len(table.rows) |-> Row(is_header(table.rows[r]), cells_of(table.rows[r], archive))]


keeps_any_paragraph(paragraph) == TRUE

\* lib.rs:550: a paragraph without blocks gets no entry
keeps_paragraph(paragraph) == paragraph.blocks # <<>>

Reading == r_pc = "running" /\ r_index < Len(docx.body)

Node == docx.body[r_index + 1]

\* lib.rs:491-544: the archive is opened and parsed, or None is returned; the
\* title, the numbering definitions, the images and the named styles are read
from_reader_begin ==
  /\ r_pc = "idle"
  /\ IF ~docx.readable
     THEN r_pc' = "none" /\ doc' = doc
     ELSE IF levels_missing(docx)
          THEN r_pc' = "panicked" /\ doc' = doc
          ELSE /\ r_pc' = "running"
               /\ doc' = [MarkdownDocument_new EXCEPT
                            !.title = title_of(docx),
                            !.numberings = numberings_of(docx),
                            !.images = images_of(docx),
                            !.styles = insert_styles(<<>>, docx.styles)]
  /\ UNCHANGED <<docx, r_index, kept>>
  /\ UNCHANGED <<callVars, normVars>>

\* lib.rs:548-555: a body paragraph
read_paragraph ==
  /\ Reading
  /\ Node.kind = "Paragraph"
  /\ LET markdown_paragraph_ == from_paragraph(Node, docx)
     IN IF keeps_paragraph(markdown_paragraph_)
        THEN /\ doc' = [doc EXCEPT !.content = Append(@, ParagraphItem(markdown_paragraph_))]
             /\ kept' = Append(kept, r_index + 1)
        ELSE UNCHANGED <<doc, kept>>
  /\ r_index' = r_index + 1
  /\ UNCHANGED <<docx, r_pc>>
  /\ UNCHANGED <<callVars, normVars>>

\* lib.rs:556-599: a body table
read_table ==
  /\ Reading
  /\ Node.kind = "Table"
  /\ doc' = [doc EXCEPT !.content = Append(@, TableItem(rows_columns(Node, docx)))]
  /\ kept' = Append(kept, r_index + 1)
  /\ r_index' = r_index + 1
  /\ UNCHANGED <<docx, r_pc>>
  /\ UNCHANGED <<callVars, normVars>>

\* lib.rs:600-611: the other body nodes
read_ignored ==
  /\ Reading
  /\ Node.kind \in IgnoredKinds
  /\ r_index' = r_index + 1
  /\ UNCHANGED <<docx, r_pc, doc, kept>>
  /\ UNCHANGED <<callVars, normVars>>

\* lib.rs:615
from_reader_end ==
  /\ r_pc = "running"
  /\ r_index = Len(docx.body)
  /\ r_pc' = "done"
  /\ UNCHANGED <<docx, r_index, doc, kept>>
  /\ UNCHANGED <<callVars, normVars>>

NextRead ==
  \/ from_reader_begin
  \/ read_paragraph
  \/ read_table
  \/ read_ignored
  \/ from_reader_end

SpecRead == InitRead /\ [][NextRead]_vars

\* ------------------------------------------------------------------------
\* What the claims speak of

\* the paragraphs of a document in the order a rendering visits them: a body
\* paragraph, or a table's paragraphs row by row, cell by cell
VisitOrder(document) ==
  Flatten([i \in 1..Len(document.content) |->
    IF document.content[i].tag = "Paragraph"
    THEN <<document.content[i].paragraph>>
    ELSE Flatten([r \in 1..Len(document.content[i].table) |->
           Flatten(document.content[i].table[r].cells)])])

\* the list id a paragraph's effective numbering references, if any
ListIdOf(paragraph) ==
  LET style == effective_style(paragraph, doc.styles)
  IN IF style.numbering = None THEN None ELSE Unwrap(style.numbering).id

\* the effective outline level of a paragraph, if any
OutlineOf(paragraph) == effective_style(paragraph, doc.styles).outline_lvl

Min(a, b) == IF a <= b THEN a ELSE b

DecimalNumerals == <<"1", "2", "3", "4", "5", "6", "7", "8", "9", "10", "11", "12">>

\* the entries of a call's trace that returned
Ok(t, j) == trace[t][j].out.status = "ok"

\* how many of the first j - 1 paragraphs visited reference list id
EarlierOf(id, j) == Cardinality({i \in 1..(j - 1) : ListIdOf(VisitOrder(doc)[i]) = Some(id)})

\* what follows the heading prefix in a rendered paragraph
AfterHeading(entry) ==
  LET style == effective_style(entry.paragraph, doc.styles)
  IN (IF style.numbering = None THEN "" ELSE indentation(Unwrap(style.numbering)))
     \o (IF IsSome(entry.out.marker) THEN Unwrap(entry.out.marker).symbol \o " " ELSE "")
     \o blocks_to_markdown(entry.paragraph.blocks, style)

\* C1: within one call the paragraphs are rendered in document order (body
\* paragraphs and cell paragraphs row by row, cell by cell); the k-th paragraph
\* (k from 0) whose effective numbering references list id L reads counter
\* value k, whatever its indentation and whatever lies in between (a decimal
\* list shows k+1); rendering it leaves L's counter at k+1 and every other
\* counter as it was; a paragraph without a list id changes no counter.
C1_CountersFollowDocumentOrder ==
  \A t \in Threads : \A j \in 1..Len(trace[t]) :
    LET entry == trace[t][j]
        id == ListIdOf(entry.paragraph)
    IN /\ j <= Len(VisitOrder(doc))
       /\ entry.paragraph = VisitOrder(doc)[j]
       /\ entry.before = IF j = 1 THEN <<>> ELSE trace[t][j - 1].out.numberings
       /\ (j = Len(trace[t]) /\ Ok(t, j)) => numberings[counters_of(t)] = entry.out.numberings
       /\ Ok(t, j) =>
            IF IsSome(id)
            THEN LET L == Unwrap(id)
                     k == EarlierOf(L, j)
                 IN /\ entry.out.marker # None
                    /\ Unwrap(entry.out.marker).id = L
                    /\ Unwrap(entry.out.marker).count = k
                    /\ number_format(doc.numberings[L]) = "decimal" =>
                         entry.out.markdown =
                           heading_prefix(effective_style(entry.paragraph, doc.styles))
                           \o indentation(Unwrap(effective_style(entry.paragraph,
                                                                 doc.styles).numbering))
                           \o DecimalNumerals[k + 1] \o ". "
                           \o blocks_to_markdown(entry.paragraph.blocks,
                                                 effective_style(entry.paragraph, doc.styles))
                    /\ DOMAIN entry.out.numberings = DOMAIN entry.before \cup {L}
                    /\ entry.out.numberings[L] = k + 1
                    /\ \A other \in DOMAIN entry.out.numberings \ {L} :
                         entry.out.numberings[other] = entry.before[other]
            ELSE /\ entry.out.marker = None
                 /\ entry.out.numberings = entry.before

\* C1 witness: a call has finished in which the third paragraph of list 1 was
\* rendered with count 2 inside a table cell, indented, after a paragraph of
\* another list
C1_Witness ==
  /\ pc["t1"] = "done"
  /\ tables["t1"] # <<>>
  /\ \E i, j \in 1..Len(trace["t1"]) :
       /\ i < j
       /\ trace["t1"][i].out.marker # None
       /\ Unwrap(trace["t1"][i].out.marker).id = 2
       /\ trace["t1"][j].out.marker # None
       /\ Unwrap(trace["t1"][j].out.marker).id = 1
       /\ Unwrap(trace["t1"][j].out.marker).count = 2
       /\ indentation(Unwrap(Unwrap(trace["t1"][j].paragraph.style).numbering)) # ""

\* C2: every call starts from empty counters, so the calls made one after the
\* other on a document all return the same string, and in each of them the
\* first numbered item of a list is rendered with count 0.
C2_CallsRestart ==
  /\ \A i, j \in 1..Len(returned) : returned[i].markdown = returned[j].markdown
  /\ \A t \in Threads : \A j \in 1..Len(trace[t]) :
       (Ok(t, j) /\ IsSome(trace[t][j].out.marker)
        /\ \A i \in 1..(j - 1) : ListIdOf(trace[t][i].paragraph) # ListIdOf(trace[t][j].paragraph))
       => Unwrap(trace[t][j].out.marker).count = 0

\* C2 witness: a second call on a document with numbered paragraphs has
\* returned
C2_Witness ==
  /\ Len(returned) >= 2
  /\ pc["t1"] = "done"
  /\ \E j \in 1..Len(trace["t1"]) :
       IsSome(trace["t1"][j].out.marker) /\ Unwrap(trace["t1"][j].out.marker).count >= 1

\* C3: two calls on one document, their paragraph steps interleaved in any
\* order, return what a call running alone returns, and no step changes the
\* document.
C3_ConcurrentCallsIndependent ==
  /\ [](\A i, j \in 1..Len(returned) : returned[i].markdown = returned[j].markdown)
  /\ [][doc' = doc]_vars

\* C3 witness: a call that ran alone and a call whose steps ran while another
\* thread's call was under way have both returned, on a document with numbered
\* paragraphs
C3_Witness ==
  /\ \E i, j \in 1..Len(returned) : returned[i].alone /\ returned[j].overlapped
  /\ \E t \in Threads : \E j \in 1..Len(trace[t]) :
       IsSome(trace[t][j].out.marker) /\ Unwrap(trace[t][j].out.marker).count >= 1

\* C4: a paragraph whose list id has no entry in the document's numbering
\* definitions is rendered without failing, as a decimal item "{count+1}. ",
\* and the id's counter is incremented.
C4_MissingDefinitionIsDecimal ==
  \A t \in Threads : \A j \in 1..Len(trace[t]) :
    LET entry == trace[t][j]
        id == ListIdOf(entry.paragraph)
    IN (IsSome(id) /\ Unwrap(id) \notin DOMAIN doc.numberings) =>
         /\ Ok(t, j)
         /\ entry.out.marker # None
         /\ Unwrap(entry.out.marker).symbol
              = DecimalNumerals[Unwrap(entry.out.marker).count + 1] \o "."
         /\ entry.out.numberings[Unwrap(id)] = Unwrap(entry.out.marker).count + 1

\* C5 as claimed: an effective outline level L, negative ones included, gives
\* min(L,5)+1 '#' and a space; no outline level gives no prefix.
C5_HeadingPrefixAsClaimed ==
  \A t \in Threads : \A j \in 1..Len(trace[t]) :
    LET entry == trace[t][j]
        level == OutlineOf(entry.paragraph)
    IN Ok(t, j) =>
         entry.out.markdown =
           (IF IsSome(level) THEN Repeat("#", Min(Unwrap(level), 5) + 1) \o " " ELSE "")
           \o AfterHeading(entry)

\* C5, amended: an effective outline level L >= 0 gives min(L,5)+1 '#' and a
\* space, a negative one gives six '#' and a space; no outline level gives no
\* prefix.
C5_HeadingPrefix ==
  \A t \in Threads : \A j \in 1..Len(trace[t]) :
    LET entry == trace[t][j]
        level == OutlineOf(entry.paragraph)
    IN Ok(t, j) =>
         entry.out.markdown =
           (IF IsSome(level)
            THEN (IF Unwrap(level) >= 0 THEN Repeat("#", Min(Unwrap(level), 5) + 1)
                  ELSE "######") \o " "
            ELSE "")
           \o AfterHeading(entry)

\* C5 witness: a paragraph with a negative outline level has been rendered
\* with six '#', and in a later state of another document so has one whose
\* level above 5 comes from its named style
C5_Witness ==
  /\ pc["t1"] = "done"
  /\ Len(trace["t1"]) = 1
  /\ Ok("t1", 1)
  /\ IsSome(OutlineOf(trace["t1"][1].paragraph))
  /\ Unwrap(OutlineOf(trace["t1"][1].paragraph)) = -1
  /\ returned[1].markdown = "###### x\n"

\* a text run: a run that holds text and no drawing
TextRun(item) ==
  /\ item.kind = "Run"
  /\ \E q \in 1..Len(item.content) : item.content[q].kind = "Text"
  /\ \A q \in 1..Len(item.content) : item.content[q].kind # "Drawing"

\* the texts of item i, as <<item, part>>, in order
TextsOf(i) ==
  LET content == raw.content[i].content
      RECURSIVE from(_)
      from(q) == IF q > Len(content) THEN <<>>
                 ELSE (IF content[q].kind = "Text" THEN << <<i, q>> >> ELSE <<>>) \o from(q + 1)
  IN from(1)

RECURSIVE TextOfPieces(_)
TextOfPieces(pieces) ==
  IF pieces = <<>> THEN ""
  ELSE raw.content[pieces[1][1]].content[pieces[1][2]].text \o TextOfPieces(Tail(pieces))

Holds(b, piece) == \E q \in 1..Len(origin[b]) : origin[b][q] = piece

\* C6: two text runs next to each other in a paragraph's content that carry
\* identical BlockStyle end up in exactly one Text block, their texts one
\* after the other in order; a Text block's text is the concatenation of the
\* texts appended to it, and a text is only ever appended to a block of type
\* Text with the style of the text's run.
C6_AdjacentRunsMerge ==
  /\ Len(origin) = Len(markdown_paragraph.blocks)
  /\ \A b \in 1..Len(origin) :
       origin[b] # <<>> =>
         /\ markdown_paragraph.blocks[b].text_type = "Text"
         /\ markdown_paragraph.blocks[b].text = TextOfPieces(origin[b])
         /\ \A q \in 1..Len(origin[b]) :
              block_style_of(raw.content[origin[b][q][1]].property)
                = markdown_paragraph.blocks[b].style
  /\ n_pc = "done" =>
       \A i \in 1..(Len(raw.content) - 1) :
         (/\ TextRun(raw.content[i])
          /\ TextRun(raw.content[i + 1])
          /\ IsSome(block_style_of(raw.content[i].property))
          /\ block_style_of(raw.content[i].property)
               = block_style_of(raw.content[i + 1].property))
         => LET want == TextsOf(i) \o TextsOf(i + 1)
            IN \E b \in 1..Len(origin) :
                 /\ \E off \in 0..(Len(origin[b]) - Len(want)) :
                      SubSeq(origin[b], off + 1, off + Len(want)) = want
                 /\ \A other \in 1..Len(origin) :
                      other # b => \A q \in 1..Len(want) : ~Holds(other, want[q])

\* C6 witness: an italic run and a run with an emphasis mark, identical in
\* BlockStyle, were merged into the one block "fg" after a link block that the
\* first of them did not extend
C6_Witness ==
  /\ n_pc = "done"
  /\ Len(markdown_paragraph.blocks) = 2
  /\ markdown_paragraph.blocks[1].text_type = "Link"
  /\ markdown_paragraph.blocks[2].text = "fg"
  /\ origin[2] = << <<2, 1>>, <<3, 1>> >>

\* the tables a call has rendered that have at least one row
Rendered_tables(t) == {k \in 1..Len(tables[t]) : Len(tables[t][k].rows) >= 1}

RowText(entry, r) == table_row_to_markdown(entry.column_lengths, entry.rows[r].row)

HeaderFirst(entry) ==
  <<RowText(entry, 1), divider_of(entry.column_lengths)>>
  \o [i \in 1..(Len(entry.rows) - 1) |-> RowText(entry, i + 1)]

BlankFirst(entry) ==
  <<blank_header(entry.column_lengths), divider_of(entry.column_lengths)>>
  \o [i \in 1..Len(entry.rows) |-> RowText(entry, i)]

\* C7 as claimed: a table with a row has one divider, as its second rendered
\* row; a header first row is followed by the divider and the other rows; with
\* no header row at all a blank row and the divider come before all the rows;
\* and the blank row is synthesized only when no row is marked header.
C7_TableRowsAsClaimed ==
  \A t \in Threads : \A k \in Rendered_tables(t) :
    LET entry == tables[t][k]
        any_header == \E r \in 1..Len(entry.rows) : entry.rows[r].is_header
    IN /\ entry.rows[1].is_header => entry.pieces = HeaderFirst(entry)
       /\ ~any_header => entry.pieces = BlankFirst(entry)
       /\ Len(entry.pieces) = Len(entry.rows) + 1 + (IF any_header THEN 0 ELSE 1)

\* C7, amended: a table with a row has one divider, as its second rendered
\* row; a header first row is followed by the divider and the other rows in
\* order; when the first row is not marked header (whatever the later rows
\* are marked) a blank row and the divider come before all the rows in order.
\* No row is dropped or repeated.
C7_TableRows ==
  \A t \in Threads : \A k \in Rendered_tables(t) :
    LET entry == tables[t][k]
    IN /\ entry.pieces = IF entry.rows[1].is_header THEN HeaderFirst(entry)
                         ELSE BlankFirst(entry)
       /\ entry.rows = table_with_simple_cells(entry.table, entry.rows_md)
       /\ Len(entry.rows) = Len(entry.table)
       /\ entry.text = Concat(entry.pieces)

\* C7 witness: a table whose second row is the only one marked header has
\* been rendered with a blank first row
C7_Witness ==
  \E k \in Rendered_tables("t1") :
    /\ ~tables["t1"][k].rows[1].is_header
    /\ tables["t1"][k].rows[2].is_header
    /\ tables["t1"][k].pieces[1] = "|      |       |\n"
    /\ Len(tables["t1"][k].pieces) = 4

ColumnsOf(rows) == 1..Max({0} \cup {Len(rows[r].row) : r \in 1..Len(rows)})

\* the greatest cell length in a column, and at least 3
WidthOf(rows, col) ==
  Max({3} \cup {Len(rows[r].row[col]) : r \in {q \in 1..Len(rows) : col <= Len(rows[q].row)}})

RECURSIVE PaddedLength(_, _)
\* the length of a row of n cells: "|", then " cell |" per column, then "\n"
PaddedLength(rows, n) == IF n = 0 THEN 2 ELSE PaddedLength(rows, n - 1) + WidthOf(rows, n) + 3

\* C8: the width of every column present in any row is the greatest cell
\* length at that index over the rows, and at least 3; every rendered row is
\* padded to those widths and the divider's cells are that many '-'.
C8_ColumnWidths ==
  \A t \in Threads : \A k \in Rendered_tables(t) :
    LET entry == tables[t][k]
        rows == entry.rows
        first == IF rows[1].is_header THEN 1 ELSE 2
    IN /\ DOMAIN entry.column_lengths = ColumnsOf(rows)
       /\ \A col \in ColumnsOf(rows) : entry.column_lengths[col] = WidthOf(rows, col)
       /\ entry.pieces[2] =
            "|" \o Concat([col \in ColumnsOf(rows) |->
                             " " \o Repeat("-", WidthOf(rows, col)) \o " |"]) \o "\n"
       /\ Len(entry.pieces[1]) = IF rows[1].is_header THEN PaddedLength(rows, Len(rows[1].row))
                                 ELSE PaddedLength(rows, Cardinality(ColumnsOf(rows)))
       /\ \A r \in 1..Len(rows) :
            (r > 1 \/ ~rows[1].is_header) =>
              Len(entry.pieces[r + first]) = PaddedLength(rows, Len(rows[r].row))

\* C8 witness: a table has been rendered with a column of one-character cells,
\* raised to width 3, and another with a column as wide as its widest cell, 5
C8_Witness ==
  /\ \E k \in Rendered_tables("t1") :
       /\ tables["t1"][k].column_lengths = <<3, 3>>
       /\ tables["t1"][k].rows[1].row = <<"A", "B">>
       /\ tables["t1"][k].pieces[2] = "| --- | --- |\n"
  /\ \E k \in Rendered_tables("t1") : tables["t1"][k].column_lengths = <<4, 5>>

UpperLetters == <<"A", "B", "C", "D", "E", "F", "G", "H">>

LowerLetters == <<"a", "b", "c", "d", "e", "f", "g", "h">>

UpperRomans == <<"I", "J", "K", "L", "M", "N", "O", "P">>

LowerRomans == <<"i", "j", "k", "l", "m", "n", "o", "p">>

\* C9: the symbol depends on the definition's format and the count read only:
\* letters from A / a, single characters from I / i, '-' for a bullet (a space
\* when its level text is present and blank), and "{count+1}." for no format
\* string, an unrecognized one, or any other format; the marker is the symbol
\* and a space, and the counter is incremented whatever the format.
C9_NumberingSymbol ==
  \A t \in Threads : \A j \in 1..Len(trace[t]) :
    LET entry == trace[t][j]
    IN (Ok(t, j) /\ IsSome(entry.out.marker)) =>
         LET marker == Unwrap(entry.out.marker)
             definition == doc.numberings[marker.id]
             format == definition.format
         IN /\ marker.symbol =
                 CASE format = Some("upperLetter") -> UpperLetters[marker.count + 1] \o "."
                   [] format = Some("lowerLetter") -> LowerLetters[marker.count + 1] \o "."
                   [] format = Some("upperRoman") -> UpperRomans[marker.count + 1] \o "."
                   [] format = Some("lowerRoman") -> LowerRomans[marker.count + 1] \o "."
                   [] format = Some("bullet") ->
                        IF definition.level_text \in {Some(""), Some(" ")} THEN " " ELSE "-"
                   [] OTHER -> DecimalNumerals[marker.count + 1] \o "."
            /\ entry.out.markdown =
                 heading_prefix(effective_style(entry.paragraph, doc.styles))
                 \o AfterHeading(entry)
            /\ entry.out.numberings[marker.id] = marker.count + 1

\* C9 witness: the third item of an upper-letter list has been rendered "C. "
C9_Witness ==
  /\ pc["t1"] = "done"
  /\ doc.numberings[1].format = Some("upperLetter")
  /\ Len(trace["t1"]) = 3
  /\ Unwrap(trace["t1"][3].out.marker).symbol = "C."
  /\ returned[1].markdown = "A. a\n\nB. a\n\nC. a\n"

RECURSIVE Join(_, _)
\* the strings of a sequence with sep between consecutive ones
Join(ss, sep) ==
  IF ss = <<>> THEN ""
  ELSE IF Len(ss) = 1 THEN ss[1] ELSE ss[1] \o sep \o Join(Tail(ss), sep)

RECURSIVE ItemTexts(_, _, _, _)
\* what the content items from the i-th on were rendered as in thread t's
\* call: a paragraph's string and a newline, a table's rows; j and k count the
\* paragraphs and tables before item i
ItemTexts(t, i, j, k) ==
  IF i > Len(doc.content) THEN <<>>
  ELSE IF doc.content[i].tag = "Paragraph"
       THEN <<trace[t][j + 1].out.markdown \o "\n">> \o ItemTexts(t, i + 1, j + 1, k)
       ELSE <<tables[t][k + 1].text>>
            \o ItemTexts(t, i + 1, j + Len(table_paragraphs(doc.content[i].table)), k + 1)

\* the string a finished call returns: the title heading and a blank line,
\* then the items with one "\n" between consecutive ones
C10_Layout ==
  \A t \in Threads :
    pc[t] = "done" =>
      /\ markdown[t] = (IF IsSome(doc.title) THEN "# " \o Unwrap(doc.title) \o "\n\n" ELSE "")
                       \o Join(ItemTexts(t, 1, 0, 0), "\n")
      /\ doc.content = <<ParagraphItem(Hello)>> /\ doc.title = None
           => markdown[t] = "# **Hello**\n"

\* C10: for any document to_markdown does not fail, and it returns the title
\* heading and a blank line when there is a title, then the content items in
\* order, one blank line between consecutive items and none after the last; a
\* paragraph ends with one newline, so the one-paragraph document renders
\* "# **Hello**\n".
C10_NeverFailsAndLayout ==
  /\ \A t \in Threads : pc[t] # "panicked"
  /\ C10_Layout

\* a relationship id that the paragraph's relationship table resolves
Resolves(id) == IsSome(raw.document_rels) /\ id \in DOMAIN Unwrap(raw.document_rels)

\* the texts of all runs of the paragraph, as <<item, part>>, in order
AllTexts ==
  Flatten([i \in 1..Len(raw.content) |->
             IF raw.content[i].kind = "Run" THEN TextsOf(i) ELSE <<>>])

\* the content the normalization is about to handle: a drawing of a run
AtDrawing ==
  /\ Normalizing
  /\ RawItem.kind = "Run"
  /\ n_part < Len(RawItem.content)
  /\ RawItem.content[n_part + 1].kind = "Drawing"

AtLink == Normalizing /\ RawItem.kind = "Link"

\* a hyperlink's description: the text its run starts with
DescriptionOf(link) ==
  IF link.content # None /\ Unwrap(link.content).content # <<>>
     /\ Unwrap(link.content).content[1].kind = "Text"
  THEN Some(Unwrap(link.content).content[1].text)
  ELSE None

\* a hyperlink's target: "#anchor" when it has an anchor, else the
\* relationship target of its id
TargetOf(link) ==
  IF link.anchor # None THEN Some("#" \o Unwrap(link.anchor))
  ELSE IF link.id # None /\ Resolves(Unwrap(link.id))
       THEN Some(Unwrap(raw.document_rels)[Unwrap(link.id)])
       ELSE None

\* C11: the normalization of a paragraph always runs to its end over every
\* content; a drawing whose embed id has no target (or with no relationship
\* table) leaves the blocks as they are, and one that resolves appends one
\* Image block; a hyperlink appends one Link block "[text](target)" when it
\* has a text description and a target ("#anchor", else the relationship
\* target of its id), and leaves the blocks as they are otherwise; the texts
\* of all runs are in the blocks, in order, whatever was dropped between them.
C11_UnresolvedDropped ==
  /\ [](/\ n_pc \in {"idle", "running", "done"}
        /\ n_pc = "done" => (n_item = Len(raw.content) /\ Flatten(origin) = AllTexts))
  /\ [][LET blocks == markdown_paragraph.blocks
            after == markdown_paragraph'.blocks
        IN /\ AtDrawing =>
                LET drawing == RawItem.content[n_part + 1]
                IN IF drawing.inline /\ drawing.graphic /\ Resolves(drawing.embed)
                   THEN /\ Len(after) = Len(blocks) + 1
                        /\ SubSeq(after, 1, Len(blocks)) = blocks
                        /\ after[Len(after)].text_type = "Image"
                   ELSE after = blocks
           /\ AtLink =>
                IF DescriptionOf(RawItem) # None /\ TargetOf(RawItem) # None
                THEN after = Append(blocks,
                                    [text_type |-> "Link", style |-> None,
                                     text |-> "[" \o Unwrap(DescriptionOf(RawItem)) \o "]("
                                              \o Unwrap(TargetOf(RawItem)) \o ")"])
                ELSE after = blocks
           /\ Normalizing => (n_item' > n_item \/ n_part' > n_part)]_vars

\* C11 witness: without a relationship table, a paragraph of a link by
\* relationship id, a run with a drawing between two texts, and a link
\* without a run has been normalized to the one block "ij"
C11_Witness ==
  /\ n_pc = "done"
  /\ raw.document_rels = None
  /\ Len(raw.content) = 3
  /\ raw.content[1].kind = "Link" /\ raw.content[1].id = Some("rId2")
  /\ raw.content[3].kind = "Link" /\ raw.content[3].content = None
  /\ Len(markdown_paragraph.blocks) = 1
  /\ markdown_paragraph.blocks[1].text = "ij"

\* the body nodes among the first n that the claim gives an entry: the
\* paragraphs that normalize to at least one block, and the tables
Entitled(n) ==
  {i \in 1..n :
     \/ docx.body[i].kind = "Table"
     \/ docx.body[i].kind = "Paragraph" /\ from_paragraph(docx.body[i], docx).blocks # <<>>}

\* C12: at every point of the walk the content holds, in body order, exactly
\* one entry for each body paragraph walked that normalized to at least one
\* block (the normalized paragraph) and one for each body table walked; a
\* paragraph without blocks and a structured tag, section property, stray
\* cell or stray run has none; no step changes or reorders the entries
\* already there.
C12_ContentInDocumentOrder ==
  /\ [](/\ Len(kept) = Len(doc.content)
        /\ \A k \in 1..(Len(kept) - 1) : kept[k] < kept[k + 1]
        /\ {kept[k] : k \in 1..Len(kept)} = Entitled(r_index)
        /\ \A k \in 1..Len(kept) :
             IF docx.body[kept[k]].kind = "Paragraph"
             THEN doc.content[k] = ParagraphItem(from_paragraph(docx.body[kept[k]], docx))
             ELSE /\ doc.content[k].tag = "Table"
                  /\ Len(doc.content[k].table) = Len(docx.body[kept[k]].rows)
        /\ r_pc = "done" => r_index = Len(docx.body))
  /\ [][r_pc = "running" =>
          /\ Len(doc'.content) >= Len(doc.content)
          /\ SubSeq(doc'.content, 1, Len(doc.content)) = doc.content]_vars

\* C12 witness: a body of a paragraph without blocks, a table and a paragraph
\* with text has been walked, and the content is the table and then the
\* paragraph
C12_Witness ==
  /\ r_pc = "done"
  /\ Len(docx.body) = 3
  /\ docx.body[1].kind = "Paragraph"
  /\ kept = <<2, 3>>
  /\ doc.content[1].tag = "Table"
  /\ doc.content[2].tag = "Paragraph"

\* the content the normalization is about to handle: a text of a run
AtText ==
  /\ Normalizing
  /\ RawItem.kind = "Run"
  /\ n_part < Len(RawItem.content)
  /\ RawItem.content[n_part + 1].kind = "Text"

\* the blocks after a text that is appended to the last block, or that
\* starts a new Text block with the style of its run
TextStep(blocks, after, appended) ==
  LET text == RawItem.content[n_part + 1].text
      style == block_style_of(RawItem.property)
  IN IF appended
     THEN after = [blocks EXCEPT ![Len(blocks)].text = @ \o text]
     ELSE after = Append(blocks, [text_type |-> "Text", style |-> style, text |-> text])

\* the last block is a Text block with the style of the run at hand
LastIsTextOfSameStyle ==
  /\ markdown_paragraph.blocks # <<>>
  /\ markdown_paragraph.blocks[Len(markdown_paragraph.blocks)].text_type = "Text"
  /\ markdown_paragraph.blocks[Len(markdown_paragraph.blocks)].style
       = block_style_of(RawItem.property)

\* C13 as claimed: a text of a run without character formatting always starts
\* a new Text block; a text is appended to the preceding block only when its
\* run carries a style and the preceding block is a Text block with that
\* style.
C13_AbsentStyleStartsBlockAsClaimed ==
  [][AtText =>
       TextStep(markdown_paragraph.blocks, markdown_paragraph'.blocks,
                block_style_of(RawItem.property) # None /\ LastIsTextOfSameStyle)]_vars

\* C13, amended: a text is appended to the preceding block exactly when that
\* block is a Text block whose style equals the run's, both absent or both
\* present and identical; so a text of a run without character formatting is
\* appended to a preceding Text block without style, and starts a new Text
\* block after anything else.
C13_AbsentStyleMerges ==
  [][AtText =>
       TextStep(markdown_paragraph.blocks, markdown_paragraph'.blocks,
                LastIsTextOfSameStyle)]_vars

\* C13 witness: two runs without character formatting, one after the other,
\* have been normalized to the one Text block "aa" without style
C13_Witness ==
  /\ n_pc = "done"
  /\ Len(raw.content) = 2
  /\ raw.content[1].property = None /\ raw.content[2].property = None
  /\ markdown_paragraph.blocks = <<[text_type |-> "Text", style |-> None, text |-> "aa"]>>

\* a text wrapped in the emphasis markers of the flags set: "**" innermost,
\* then "*", then "__", then "~~" outermost
Emphasized(text, bold, italics, underline, strike) ==
  LET b == IF bold THEN "**" \o text \o "**" ELSE text
      i == IF italics THEN "*" \o b \o "*" ELSE b
      u == IF underline THEN "__" \o i \o "__" ELSE i
  IN IF strike THEN "~~" \o u \o "~~" ELSE u

\* what precedes the blocks in a rendered paragraph
BeforeBlocks(entry) ==
  LET style == effective_style(entry.paragraph, doc.styles)
  IN heading_prefix(style)
     \o (IF style.numbering = None THEN "" ELSE indentation(Unwrap(style.numbering)))
     \o (IF IsSome(entry.out.marker) THEN Unwrap(entry.out.marker).symbol \o " " ELSE "")

\* a block's own style, all flags false and no size when it has none
OwnStyle(block) == IF block.style = None THEN BlockStyle_new ELSE Unwrap(block.style)

\* C14: when the effective paragraph style carries a run-default BlockStyle
\* P, every block of the paragraph is rendered with P's bold, italics,
\* underline and strike whatever its own flags are, and with P's size if P
\* has one and its own size otherwise; without a run-default style the
\* block's own flags and size are used, all false and none for a block
\* without style.
C14_RunDefaultReplacesFlags ==
  \A t \in Threads : \A j \in 1..Len(trace[t]) :
    LET entry == trace[t][j]
        blocks == entry.paragraph.blocks
        effective == effective_style(entry.paragraph, doc.styles)
        P == effective.style
    IN Ok(t, j) =>
         /\ entry.out.markdown =
              BeforeBlocks(entry)
              \o Concat([b \in 1..Len(blocks) |->
                           LET flags == IF P # None THEN Unwrap(P) ELSE OwnStyle(blocks[b])
                           IN Emphasized(blocks[b].text, flags.bold, flags.italics,
                                         flags.underline, flags.strike)])
         /\ \A b \in 1..Len(blocks) :
              block_render_style(blocks[b], effective).size
                = IF P # None /\ Unwrap(P).size # None THEN Unwrap(P).size
                  ELSE OwnStyle(blocks[b]).size

\* C14 witness: a block that is bold and underlined on its own, of size 19,
\* has been rendered without any marker in a paragraph whose run-default style
\* has no flag and no size
C14_Witness ==
  /\ pc["t1"] = "done"
  /\ Len(trace["t1"]) = 1
  /\ Ok("t1", 1)
  /\ effective_style(trace["t1"][1].paragraph, doc.styles).style = Some(BlockStyle_new)
  /\ Len(trace["t1"][1].paragraph.blocks) = 2
  /\ trace["t1"][1].paragraph.blocks[1].style
       = Some([BlockStyle_new EXCEPT !.bold = TRUE, !.underline = TRUE, !.size = Some(19)])
  /\ returned[1].markdown = "xy\n"

\* a paragraph's local style: its own, or the default one when it has none
LocalStyle(paragraph) ==
  IF paragraph.style = None THEN ParagraphStyle_default ELSE Unwrap(paragraph.style)

\* the named style a paragraph's local style id names, if the table holds it
NamedStyleOf(paragraph) ==
  IF LocalStyle(paragraph).style_id # None
     /\ Unwrap(LocalStyle(paragraph).style_id) \in DOMAIN doc.styles
  THEN Some(doc.styles[Unwrap(LocalStyle(paragraph).style_id)])
  ELSE None

\* C15: of the effective style a paragraph is rendered with, style id,
\* outline level, page break and numbering are each the paragraph's local
\* value when present and else the value of the named style its local style
\* id names; without a style id, or with one the table does not hold, the
\* effective style is the local one; the named style's own style id is not
\* followed.  The heading and the list marker rendered are those of these
\* values.
C15_LocalValueWins ==
  \A t \in Threads : \A j \in 1..Len(trace[t]) :
    LET entry == trace[t][j]
        local == LocalStyle(entry.paragraph)
        named == NamedStyleOf(entry.paragraph)
        effective == effective_style(entry.paragraph, doc.styles)
        claimed ==
          IF named = None THEN local
          ELSE [style_id |-> IF local.style_id # None THEN local.style_id
                             ELSE Unwrap(named).style_id,
                outline_lvl |-> IF local.outline_lvl # None THEN local.outline_lvl
                                ELSE Unwrap(named).outline_lvl,
                page_break_before |-> IF local.page_break_before # None
                                      THEN local.page_break_before
                                      ELSE Unwrap(named).page_break_before,
                numbering |-> IF local.numbering # None THEN local.numbering
                              ELSE Unwrap(named).numbering,
                style |-> effective.style]
    IN /\ effective = claimed
       /\ Ok(t, j) =>
            /\ entry.out.markdown =
                 heading_prefix(claimed)
                 \o (IF claimed.numbering = None THEN ""
                     ELSE indentation(Unwrap(claimed.numbering)))
                 \o (IF IsSome(entry.out.marker) THEN Unwrap(entry.out.marker).symbol \o " "
                     ELSE "")
                 \o blocks_to_markdown(entry.paragraph.blocks, effective)
            /\ IsSome(entry.out.marker)
                 <=> (claimed.numbering # None /\ Unwrap(claimed.numbering).id # None)

\* C15 witness: a paragraph whose style id names a style that itself names
\* the heading style has been rendered with the named style's page break and
\* no heading
C15_Witness ==
  /\ pc["t1"] = "done"
  /\ Len(trace["t1"]) = 1
  /\ LocalStyle(trace["t1"][1].paragraph).style_id = Some("Chain")
  /\ LocalStyle(trace["t1"][1].paragraph).page_break_before = None
  /\ LocalStyle(trace["t1"][1].paragraph).outline_lvl = None
  /\ LocalStyle(trace["t1"][1].paragraph).numbering = None
  /\ effective_style(trace["t1"][1].paragraph, doc.styles).page_break_before = Some(TRUE)
  /\ returned[1].markdown = "x\n"

\* the code of the character a letter or roman format starts from: 'A', 'a',
\* 'I', 'i'
BaseOf(format) ==
  CASE format = "upperLetter" -> 65
    [] format = "lowerLetter" -> 97
    [] format = "upperRoman" -> 73
    [] format = "lowerRoman" -> 105

LetterFormats == {"upperLetter", "lowerLetter", "upperRoman", "lowerRoman"}

\* the paragraphs rendered or tried in a letter or roman format
LetterEntries(t) ==
  {j \in 1..Len(trace[t]) :
     /\ IsSome(ListIdOf(trace[t][j].paragraph))
     /\ Unwrap(ListIdOf(trace[t][j].paragraph)) \in DOMAIN doc.numberings
     /\ number_format(doc.numberings[Unwrap(ListIdOf(trace[t][j].paragraph))])
          \in LetterFormats}

\* the count a paragraph of a list reads: the counter before it, 0 when the
\* list has none yet
CountRead(entry) ==
  IF Unwrap(ListIdOf(entry.paragraph)) \in DOMAIN entry.before
  THEN entry.before[Unwrap(ListIdOf(entry.paragraph))]
  ELSE 0

\* a rendered marker is the character of code (base + c) mod 256 and a '.',
\* and the counter is left at c + 1
WrappedMarker(entry) ==
  LET id == Unwrap(ListIdOf(entry.paragraph))
      c == CountRead(entry)
  IN /\ entry.out.marker # None
     /\ Unwrap(entry.out.marker).count = c
     /\ Unwrap(entry.out.marker).symbol
          = Chr((BaseOf(number_format(doc.numberings[id])) + c) % 256) \o "."
     /\ entry.out.numberings[id] = c + 1

\* C16: for a letter or roman format and every counter value c, also c >= 26
\* and c with base + (c mod 256) above 255, rendering does not fail and the
\* marker is the character of code (base + c) mod 256 followed by '.'; the
\* counter goes on to c + 1 and is never wrapped or reset.
C16_MarkerWrapsAndNeverFails ==
  \A t \in Threads : \A j \in LetterEntries(t) :
    Ok(t, j) /\ WrappedMarker(trace[t][j])

\* What holds of the markers of the paragraphs that were rendered
C16_MarkerWrapsWhenRendered ==
  \A t \in Threads : \A j \in LetterEntries(t) :
    Ok(t, j) => WrappedMarker(trace[t][j])

\* the combinations of effective flags that rendered blocks have had
FlagsRendered ==
  UNION {UNION {{LET f == block_render_style(trace[t][j].paragraph.blocks[b],
                                             effective_style(trace[t][j].paragraph,
                                                             doc.styles))
                 IN <<f.bold, f.italics, f.underline, f.strike>> :
                   b \in 1..Len(trace[t][j].paragraph.blocks)} :
                  j \in 1..Len(trace[t])} :
           t \in Threads}

\* C17: a rendered block is its text wrapped by "**" when its effective style
\* is bold, the result by "*" when italic, that by "__" when underlined and
\* that by "~~" when struck, for exactly the flags set; with no flag set the
\* text is unchanged.  A paragraph's blocks follow one another so wrapped.
C17_EmphasisOrder ==
  \A t \in Threads : \A j \in 1..Len(trace[t]) :
    LET entry == trace[t][j]
        blocks == entry.paragraph.blocks
        effective == effective_style(entry.paragraph, doc.styles)
    IN Ok(t, j) =>
         entry.out.markdown =
           BeforeBlocks(entry)
           \o Concat([b \in 1..Len(blocks) |->
                        LET style == block_render_style(blocks[b], effective)
                            bold == IF style.bold THEN "**" ELSE ""
                            italics == IF style.italics THEN "*" ELSE ""
                            underline == IF style.underline THEN "__" ELSE ""
                            strike == IF style.strike THEN "~~" ELSE ""
                        IN strike \o underline \o italics \o bold \o blocks[b].text
                           \o bold \o italics \o underline \o strike])

\* C17 witness: a block with all four flags has been rendered before a block
\* with none
C17_Witness ==
  /\ pc["t1"] = "done"
  /\ <<TRUE, TRUE, TRUE, TRUE>> \in FlagsRendered
  /\ <<FALSE, FALSE, FALSE, FALSE>> \in FlagsRendered
  /\ returned[1].markdown = "~~__***x***__~~y\n"

====
